---- MODULE Spec2Model ----
(***************************************************************************)
(* ManagedClusterReconciler of slysunkin/hmc: the per-object reconcile     *)
(* pass (Reconcile -> Delete | Update -> updateStatus) over the objects it *)
(* reads and writes in the store.                                          *)
(*                                                                         *)
(* One pass is one action.  A pass is computed as the set of outcomes the  *)
(* code can produce from the current store: every external call draws its  *)
(* result (an error, not found, the object read) at the place the code     *)
(* makes the call, and an early return ends the pass there.  Objects the   *)
(* reconciler only reads (ClusterTemplate, HelmChart, Credential, CAPI     *)
(* Cluster conditions, Machines, template chains, Management) are inputs   *)
(* of the pass; objects it writes (ManagedCluster, HelmRelease, Profile,   *)
(* AWSCluster/AzureCluster finalizers) are the state.                      *)
(*                                                                         *)
(* Strings the code builds (condition messages, provider identifiers) are  *)
(* sequences of tokens, so that concatenation and prefix search are        *)
(* computed and not assumed.                                               *)
(***************************************************************************)
EXTENDS Naturals, Sequences, FiniteSets, TLC

\* ---------------------------------------------------------------- bounds

\* The external calls that fail with a transient error in one run.
MaxFaults == 1

\* The longest condition list the status step is applied to on its own.
MaxConditions == 3

\* The longest list of template chains the upgrade resolver is applied to.
MaxChains == 2

\* The most supported-template entries a template chain carries.
MaxSupported == 2

\* ------------------------------------------------------------- constants

\* DefaultRequeueInterval, in seconds.
DefaultRequeueInterval == 10

ReadyCondition == "Ready"
TemplateReadyCondition == "TemplateReady"
HelmChartReadyCondition == "HelmChartReady"
HelmReleaseReadyCondition == "HelmReleaseReady"
CredentialReadyCondition == "CredentialReady"
CredentialsPropagatedCondition == "CredentialsPropagated"

ConditionTrue == "True"
ConditionFalse == "False"
ConditionUnknown == "Unknown"

SucceededReason == "Succeeded"
FailedReason == "Failed"
ProgressingReason == "Progressing"

\* The ManagedCluster's spec.template.
TemplateName == "template-a"

\* --------------------------------------------------------------- helpers

Range(s) == {s[i] : i \in 1..Len(s)}

\* Bind(S, Op): every outcome of Op from every outcome in S.
Bind(S, Op(_)) == UNION {Op(c) : c \in S}

RECURSIVE Flatten(_)
\* The concatenation of a sequence of sequences.
Flatten(ss) == IF ss = <<>> THEN <<>> ELSE Head(ss) \o Flatten(Tail(ss))

RECURSIVE Perms(_)
\* Every ordering of a finite set, as sequences.
Perms(S) ==
  IF S = {} THEN {<<>>}
  ELSE UNION {{<<x>> \o p : p \in Perms(S \ {x})} : x \in S}

Cond(type, status, reason, message) ==
  [type |-> type, status |-> status, reason |-> reason, message |-> message]

\* ------------------------------------------------------ condition ledger

\* apimeta.FindStatusCondition: the index of the condition of that type, or 0.
FindStatusCondition(conds, type) ==
  IF \E i \in 1..Len(conds) : conds[i].type = type
  THEN CHOOSE i \in 1..Len(conds) :
         conds[i].type = type /\ \A j \in 1..(i - 1) : conds[j].type # type
  ELSE 0

\* SetStatusCondition that does not overwrite a condition that is False.
SetStatusCondition_FalseIsKept(conds, c) ==
  LET i == FindStatusCondition(conds, c.type) IN
  IF i = 0 THEN Append(conds, c)
  ELSE IF conds[i].status = ConditionFalse THEN conds
  ELSE [conds EXCEPT ![i] = c]

\* apimeta.SetStatusCondition: update in place by type, else append.
SetStatusCondition(conds, c) ==
  LET i == FindStatusCondition(conds, c.type) IN
  IF i = 0 THEN Append(conds, c) ELSE [conds EXCEPT ![i] = c]

\* ManagedCluster.InitConditions: every stage Unknown/Progressing.
InitConditions(dryRun) ==
  LET base == <<Cond(TemplateReadyCondition, ConditionUnknown, ProgressingReason,
                     <<"Template is not yet ready">>),
                Cond(HelmChartReadyCondition, ConditionUnknown, ProgressingReason,
                     <<"HelmChart is not yet ready">>)>>
      hrc == IF dryRun THEN <<>>
             ELSE <<Cond(HelmReleaseReadyCondition, ConditionUnknown, ProgressingReason,
                         <<"HelmRelease is not yet ready">>)>>
  IN base \o hrc \o
     <<Cond(ReadyCondition, ConditionUnknown, ProgressingReason,
            <<"ManagedCluster is not yet ready">>)>>

\* updateStatus, the loop: the messages of the non-Ready conditions of one
\* status, each followed by ". ", in list order.
Messages(conds, status) ==
  Flatten([i \in 1..Len(conds) |->
             IF conds[i].type # ReadyCondition /\ conds[i].status = status
             THEN conds[i].message \o <<". ">>
             ELSE <<>>])

\* updateStatus with the two tests in the other order: Unknown wins over False.
ReadyOf_WarningsLast(conds) ==
  LET warnings == Messages(conds, ConditionUnknown)
      errs == Messages(conds, ConditionFalse)
      c0 == Cond(ReadyCondition, ConditionTrue, SucceededReason,
                 <<"ManagedCluster is ready">>)
      c1 == IF errs # <<>>
            THEN Cond(ReadyCondition, ConditionFalse, FailedReason, errs)
            ELSE c0
  IN IF warnings # <<>>
     THEN Cond(ReadyCondition, ConditionUnknown, ProgressingReason, warnings)
     ELSE c1

\* updateStatus, the umbrella condition computed from the others.
ReadyOf(conds) ==
  LET warnings == Messages(conds, ConditionUnknown)
      errs == Messages(conds, ConditionFalse)
      c0 == Cond(ReadyCondition, ConditionTrue, SucceededReason,
                 <<"ManagedCluster is ready">>)
      c1 == IF warnings # <<>>
            THEN Cond(ReadyCondition, ConditionUnknown, ProgressingReason, warnings)
            ELSE c0
  IN IF errs # <<>>
     THEN Cond(ReadyCondition, ConditionFalse, FailedReason, errs)
     ELSE c1

\* ------------------------------------------------------- upgrade resolver

\* A chain is a sequence of supported templates [name, availableUpgrades].
\* client.MatchingFields{SupportedTemplateKey: name}: the chains that list name.
ListChains(chains, name) ==
  SelectSeq(chains, LAMBDA ch : \E i \in 1..Len(ch) : ch[i].name = name)

\* setAvailableUpgrades without the test of supportedTemplate.Name: the
\* upgrades of every entry of the listed chains.
AvailableUpgradesMap_NoNameTest(chains, name) ==
  UNION {UNION {Range(ch[i].availableUpgrades) : i \in 1..Len(ch)} :
           ch \in Range(ListChains(chains, name))}

\* setAvailableUpgrades, the map: the upgrade names declared for the template.
AvailableUpgradesMap(chains, name) ==
  UNION {UNION {Range(ch[i].availableUpgrades) :
                  i \in {j \in 1..Len(ch) : ch[j].name = name}} :
           ch \in Range(ListChains(chains, name))}

\* setAvailableUpgrades, the result list: the map's keys in the order Go's
\* map iteration yields them, which is any order.
AvailableUpgradesLists(chains, name) == Perms(AvailableUpgradesMap(chains, name))

\* ------------------------------------------------------------------ state

VARIABLES
  managedCluster,  \* the ManagedCluster in the store: metadata, spec, status
  helmRelease,     \* the HelmRelease named after the ManagedCluster
  profile,         \* the Sveltos Profile named after the ManagedCluster
  clusters,        \* the provider workload objects, by kind
  templateProviders, \* Status.Providers of the ClusterTemplate spec.template names
  templateChains,  \* the ClusterTemplateChains of the namespace
  poller,          \* the bootstrap poller: its timer, its place in Start and
                   \* Tick, and the global objects it seeds
  faults,          \* the external calls that have failed so far
  pass             \* what the reconcile pass that just returned read, called
                   \* and returned; empty once anything else has happened

vars == <<managedCluster, helmRelease, profile, clusters, templateProviders,
          templateChains, poller, faults, pass>>

\* hmc.ManagedClusterFinalizer is the only finalizer of the ManagedCluster.
\* hmc.BlockingFinalizer, and the provider controller's own finalizer.
BlockingFinalizer == "hmc.mirantis.com/cleanup"
ProviderFinalizer == "infrastructure.cluster.x-k8s.io"

\* The kinds of releaseCluster's gvkAWSCluster and gvkAzureCluster.
ClusterKinds == {"AWSCluster", "AzureCluster"}

infraPrefix == "infrastructure-"
aws == <<"aws">>
azure == <<"azure">>
vsphere == <<"vsphere">>

\* releaseCluster's providerGVKs table: provider name -> workload kind.
providerGVKs ==
  [p \in {aws, azure} |-> IF p = aws THEN "AWSCluster" ELSE "AzureCluster"]

\* Values of ClusterTemplate.Status.Providers a template can carry.
ProviderLists ==
  { <<<<"bootstrap-", "k0s">>, <<infraPrefix, "aws">>, <<infraPrefix, "azure">>>>,
    <<<<infraPrefix, "openstack">>, <<infraPrefix, "azure">>, <<infraPrefix, "vsphere">>>> }

\* The template chains visible in the namespace.
TemplateChains ==
  << <<[name |-> TemplateName, availableUpgrades |-> <<"template-b">>],
       [name |-> "template-b", availableUpgrades |-> <<"template-c">>]>> >>

NoStatus ==
  [observedGeneration |-> 0, conditions |-> <<>>, availableUpgrades |-> <<>>,
   kubernetesVersion |-> ""]

\* The bootstrap poller before Start is called.
NoPoller ==
  [CreateManagement |-> FALSE, CreateTemplates |-> FALSE,
   pc |-> "constructed", timer |-> [armed |-> FALSE, period |-> 0, elapsed |-> 0],
   cancelled |-> FALSE, running |-> 0, steps |-> <<>>, lastErr |-> "none",
   returned |-> "none",
   helmRepository |-> FALSE, helmChart |-> [exists |-> FALSE, ready |-> FALSE],
   templatesRelease |-> FALSE, management |-> FALSE]

NoPass ==
  [path |-> "none", calls |-> <<>>, err |-> FALSE, requeueAfter |-> 0,
   deleting |-> FALSE, status |-> NoStatus]

\* -------------------------------------------------------- pass plumbing

\* The context of a pass in flight: the in-memory ManagedCluster (mc), the
\* store's objects, the calls made so far with what each returned, and the
\* result once the code has returned (done).
NewCtx ==
  [mc |-> managedCluster, stored |-> managedCluster, hr |-> helmRelease,
   profile |-> profile, clusters |-> clusters, template |-> "",
   faults |-> faults, path |-> "reconcile", calls |-> <<>>,
   done |-> FALSE, err |-> FALSE, requeueAfter |-> 0]

\* One external call and what it returned.
Call(c, verb, kind, result) ==
  [c EXCEPT !.calls = Append(@, <<verb, kind, result>>),
            !.faults = IF result = "error" THEN @ + 1 ELSE @]

\* return ctrl.Result{RequeueAfter: after}, err
Return(c, err, after) ==
  [c EXCEPT !.done = TRUE, !.err = err, !.requeueAfter = after]

\* A callee's "return err": the caller decides what follows.
Fail(c) == [c EXCEPT !.err = TRUE]

Called(p, verb, kind) == \E i \in 1..Len(p.calls) :
  p.calls[i][1] = verb /\ p.calls[i][2] = kind

Returned(p, verb, kind, result) == <<verb, kind, result>> \in Range(p.calls)

\* strings.Index(v, infraPrefix): the place of the prefix, 0 for Go's -1.
IndexOf(v, tok) ==
  IF \E i \in 1..Len(v) : v[i] = tok
  THEN CHOOSE i \in 1..Len(v) : v[i] = tok /\ \A j \in 1..(i - 1) : v[j] # tok
  ELSE 0

\* getInfraProvidersNames, the loop: what follows "infrastructure-" in each
\* entry that contains it.
InfraProvidersNames(providers) ==
  LET kept == SelectSeq(providers, LAMBDA v : IndexOf(v, infraPrefix) > 0)
  IN [i \in 1..Len(kept) |->
        SubSeq(kept[i], IndexOf(kept[i], infraPrefix) + 1, Len(kept[i]))]

\* getInfraProvidersNames: Get the ClusterTemplate, then the names.  Each
\* outcome is <<ctx, providers>>; the ctx has err set when the Get failed.
getInfraProvidersNames(c) ==
  {<<Fail(Call(c, "Get", "ClusterTemplate", e)), <<>>>> : e \in {"error", "NotFound"}}
  \cup {<<Call(c, "Get", "ClusterTemplate", "ok"), InfraProvidersNames(templateProviders)>>}

\* ------------------------------------------------------ deletion protocol

\* The Machine query of objectsAvailable, named by the workload it is for.
MachinesOf(kind) ==
  IF kind = "AWSCluster" THEN "Machine of AWSCluster" ELSE "Machine of AzureCluster"

\* removeClusterFinalizer: patch the blocking finalizer away if it is there.
removeClusterFinalizer(c, kind) ==
  IF BlockingFinalizer \in c.clusters[kind].finalizers
  THEN { Fail(Call(c, "Patch", kind, "error")),
         [Call(c, "Patch", kind, "ok") EXCEPT
            !.clusters[kind].finalizers = @ \ {BlockingFinalizer}] }
  ELSE {c}

\* getCluster: the first object of the kind labelled with the cluster's name.
\* An empty list is a plain error, which apierrors.IsNotFound does not match.
getCluster(c, kind) ==
  {Call(c, "List", kind, e) : e \in {"error", "NotFound"}}
  \cup {Call(c, "List", kind, IF c.clusters[kind].exists THEN "found" ELSE "empty")}

\* objectsAvailable: whether any Machine of the workload is left.
objectsAvailable(c, kind) ==
  {Call(c, "List", MachinesOf(kind), r) : r \in {"error", "found", "none"}}

LastResult(c) == c.calls[Len(c.calls)][3]

RECURSIVE releaseProviders_IgnoresMachines(_, _, _)
\* releaseCluster with the blocking finalizer removed whatever the Machine
\* query returned.
releaseProviders_IgnoresMachines(c, providers, i) ==
  IF i > Len(providers) THEN {c}
  ELSE IF providers[i] \notin DOMAIN providerGVKs
  THEN releaseProviders_IgnoresMachines(c, providers, i + 1)
  ELSE
    LET provider == providers[i]
        kind == providerGVKs[provider]
        afterMachines(m) ==
          CASE LastResult(m) = "error" -> {Fail(m)}
            [] OTHER -> removeClusterFinalizer(m, kind)
        afterCluster(g) ==
          CASE LastResult(g) = "found" -> Bind(objectsAvailable(g, kind), afterMachines)
            [] LastResult(g) = "NotFound" /\ provider = aws -> {g}
            [] OTHER -> {Fail(g)}
    IN Bind(getCluster(c, kind), afterCluster)

RECURSIVE releaseProviders(_, _, _)
\* releaseCluster, the loop from provider i on.
releaseProviders(c, providers, i) ==
  IF i > Len(providers) THEN {c}
  ELSE IF providers[i] \notin DOMAIN providerGVKs
  THEN releaseProviders(c, providers, i + 1)
  ELSE
    LET provider == providers[i]
        kind == providerGVKs[provider]
        afterMachines(m) ==
          CASE LastResult(m) = "error" -> {Fail(m)}
            [] LastResult(m) = "none" -> removeClusterFinalizer(m, kind)
            [] OTHER -> releaseProviders(m, providers, i + 1)
        afterCluster(g) ==
          CASE LastResult(g) = "found" -> Bind(objectsAvailable(g, kind), afterMachines)
            [] LastResult(g) = "NotFound" /\ provider = aws -> {g}
            [] OTHER -> {Fail(g)}
    IN Bind(getCluster(c, kind), afterCluster)

\* releaseCluster: err is set in the outcomes that return an error.
releaseCluster(c) ==
  UNION {IF o[1].err THEN {o[1]} ELSE releaseProviders(o[1], o[2], 1) :
           o \in getInfraProvidersNames(c)}

\* controllerutil.RemoveFinalizer + r.Client.Update in Delete.  With the
\* deletion timestamp set and no finalizer left the store drops the object.
RemoveOwnFinalizer(c) ==
  IF c.mc.finalizer
  THEN { Return(Call(c, "Update", "ManagedCluster", "error"), TRUE, 0),
         Return([Call(c, "Update", "ManagedCluster", "ok") EXCEPT
                   !.mc.finalizer = FALSE,
                   !.stored.finalizer = FALSE,
                   !.stored.exists = FALSE], FALSE, 0) }
  ELSE {Return(c, FALSE, 0)}

\* helm.DeleteHelmRelease: request the deletion; the release engine removes it.
DeleteHelmRelease(c) ==
  { Return(Call(c, "Delete", "HelmRelease", "error"), TRUE, 0),
    [Call(c, "Delete", "HelmRelease", "ok") EXCEPT !.hr.deletionTimestamp = TRUE] }

\* sveltos.DeleteProfile: request the deletion of the Profile, if there is one.
DeleteProfile(c) ==
  IF c.done THEN {c}
  ELSE { Return(Call(c, "Delete", "Profile", "error"), TRUE, 0),
         [Call(c, "Delete", "Profile", "ok") EXCEPT
            !.profile.deletionTimestamp = @ \/ c.profile.exists] }

\* Delete, from the call of releaseCluster to the end.
ReleaseAndRequeue(c) ==
  IF c.done THEN {c}
  ELSE {IF r.err THEN Return(r, TRUE, 0) ELSE Return(r, FALSE, DefaultRequeueInterval) :
          r \in releaseCluster(c)}

\* Delete as a three-pass protocol would have it: with the release still
\* there, request its deletion and requeue.
DeleteAfterGet_ReleaseOnly(g) ==
  CASE LastResult(g) = "NotFound" -> RemoveOwnFinalizer(g)
    [] LastResult(g) = "error" -> {Return(g, TRUE, 0)}
    [] OTHER -> {IF d.done THEN d ELSE Return(d, FALSE, DefaultRequeueInterval) :
                   d \in DeleteHelmRelease(g)}

\* Delete with every failed Get of the HelmRelease taken for NotFound.
DeleteAfterGet_AnyErrorIsNotFound(g) ==
  CASE LastResult(g) \in {"NotFound", "error"} -> RemoveOwnFinalizer(g)
    [] OTHER -> Bind(Bind(DeleteHelmRelease(g), DeleteProfile), ReleaseAndRequeue)

\* Delete with the provider cleanup ahead of the deletion of the release, its
\* error ending the pass.
DeleteAfterGet_CleanupFirst(g) ==
  CASE LastResult(g) = "NotFound" -> RemoveOwnFinalizer(g)
    [] LastResult(g) = "error" -> {Return(g, TRUE, 0)}
    [] OTHER ->
         UNION {IF r.err THEN {Return(r, TRUE, 0)}
                ELSE {IF d.done THEN d ELSE Return(d, FALSE, DefaultRequeueInterval) :
                        d \in Bind(DeleteHelmRelease(r), DeleteProfile)} :
                  r \in releaseCluster(g)}

\* Delete, after the Get of the HelmRelease returned g.
DeleteAfterGet(g) ==
  CASE LastResult(g) = "NotFound" -> RemoveOwnFinalizer(g)
    [] LastResult(g) = "error" -> {Return(g, TRUE, 0)}
    [] OTHER -> Bind(Bind(DeleteHelmRelease(g), DeleteProfile), ReleaseAndRequeue)

\* Delete: every outcome of one deletion pass.
Delete(c) ==
  LET d == [c EXCEPT !.path = "delete"] IN
  Bind({Call(d, "Get", "HelmRelease", "error"),
        Call(d, "Get", "HelmRelease", IF d.hr.exists THEN "found" ELSE "NotFound")},
       DeleteAfterGet)

\* ------------------------------------------------------------ status step

SetCondition(c, cond) ==
  [c EXCEPT !.mc.status.conditions = SetStatusCondition(@, cond)]

\* setAvailableUpgrades: list the chains of the fetched template (the empty
\* name when none was fetched) and store the upgrade names; err on a failed List.
setAvailableUpgrades(c) ==
  {Fail(Call(c, "List", "ClusterTemplateChain", "error"))}
  \cup UNION {{[Call(c, "List", "ClusterTemplateChain", "ok") EXCEPT
                  !.mc.status.availableUpgrades = ups] :
                 ups \in AvailableUpgradesLists(chains, c.template)} :
              chains \in {templateChains}}

\* r.Status().Update called whatever setAvailableUpgrades returned.
StatusUpdate_AfterFailedListing(c) ==
  { Fail(Call(c, "StatusUpdate", "ManagedCluster", "error")),
    [Call(c, "StatusUpdate", "ManagedCluster", "ok") EXCEPT
       !.stored.status = c.mc.status] }

\* r.Status().Update at the end of updateStatus.
StatusUpdate(c) ==
  IF c.err THEN {c}
  ELSE { Fail(Call(c, "StatusUpdate", "ManagedCluster", "error")),
         [Call(c, "StatusUpdate", "ManagedCluster", "ok") EXCEPT
            !.stored.status = c.mc.status] }

\* updateStatus: ObservedGeneration, the umbrella condition, the available
\* upgrades, then the write.  err is set in the outcomes that return an error.
updateStatus(c) ==
  LET c1 == [c EXCEPT !.mc.status.observedGeneration = c.mc.generation,
                      !.err = FALSE]
      c2 == SetCondition(c1, ReadyOf(c1.mc.status.conditions))
  IN Bind(setAvailableUpgrades(c2), StatusUpdate)

\* Update's deferred function: err = errors.Join(err, r.updateStatus(...)).
Deferred(c) ==
  {[u EXCEPT !.err = c.err \/ u.err] : u \in updateStatus(c)}

\* ------------------------------------------------------------ create path

\* Conditions a CAPI Cluster can report through status.GetResourceConditions.
ClusterConditionLists ==
  { <<Cond("InfrastructureReady", ConditionTrue, "", <<"infrastructure is ready">>)>>,
    <<Cond("InfrastructureReady", ConditionFalse, "WaitingForInfrastructure",
           <<"waiting for infrastructure">>)>> }

\* Update with the finalizer step not returning after the write.
AddFinalizer_GoesOn(c) ==
  IF c.mc.finalizer THEN {c}
  ELSE LET f == [c EXCEPT !.path = "finalizer", !.mc.finalizer = TRUE] IN
       { Return(Call(f, "Update", "ManagedCluster", "error"), TRUE, 0),
         [Call(f, "Update", "ManagedCluster", "ok") EXCEPT !.stored.finalizer = TRUE] }

\* Update, the finalizer step: add it, persist the object, return.
AddFinalizer(c) ==
  IF c.mc.finalizer THEN {c}
  ELSE LET f == [c EXCEPT !.path = "finalizer", !.mc.finalizer = TRUE] IN
       { Return(Call(f, "Update", "ManagedCluster", "error"), TRUE, 0),
         Return([Call(f, "Update", "ManagedCluster", "ok") EXCEPT
                   !.stored.finalizer = TRUE], FALSE, 0) }

\* Update, InitConditions when the status has no condition yet.
EnsureConditions(c) ==
  IF c.done THEN {c}
  ELSE {IF Len(c.mc.status.conditions) = 0
        THEN [c EXCEPT !.path = "update",
                       !.mc.status.conditions = InitConditions(c.mc.dryRun)]
        ELSE [c EXCEPT !.path = "update"]}

\* Update without the return in the !template.Status.Valid branch.
CheckTemplate_InvalidGoesOn(c) ==
  IF c.done THEN {c}
  ELSE
    { Return(SetCondition(Call(c, "Get", "ClusterTemplate", "NotFound"),
               Cond(TemplateReadyCondition, ConditionFalse, FailedReason,
                    <<"provided template is not found">>)), TRUE, 0),
      SetCondition([Call(c, "Get", "ClusterTemplate", "invalid")
                      EXCEPT !.template = TemplateName],
               Cond(TemplateReadyCondition, ConditionFalse, FailedReason,
                    <<"provided template is not marked as valid">>)),
      SetCondition([Call(c, "Get", "ClusterTemplate", "valid") EXCEPT
                      !.template = TemplateName,
                      !.mc.status.kubernetesVersion = "v1.30"],
               Cond(TemplateReadyCondition, ConditionTrue, SucceededReason,
                    <<"Template is valid">>)) }

\* Update with a TemplateReady=False left by an earlier pass taken as final:
\* the template is not fetched again.
CheckTemplate_StickyFailure(c) ==
  IF c.done THEN {c}
  ELSE IF \E i \in 1..Len(c.mc.status.conditions) :
            /\ c.mc.status.conditions[i].type = TemplateReadyCondition
            /\ c.mc.status.conditions[i].status = ConditionFalse
  THEN {Return(c, TRUE, 0)}
  ELSE
    { Return(SetCondition(Call(c, "Get", "ClusterTemplate", "error"),
               Cond(TemplateReadyCondition, ConditionFalse, FailedReason,
                    <<"failed to get provided template: ", "error">>)), TRUE, 0),
      Return(SetCondition(Call(c, "Get", "ClusterTemplate", "NotFound"),
               Cond(TemplateReadyCondition, ConditionFalse, FailedReason,
                    <<"provided template is not found">>)), TRUE, 0),
      Return(SetCondition([Call(c, "Get", "ClusterTemplate", "invalid")
                             EXCEPT !.template = TemplateName],
               Cond(TemplateReadyCondition, ConditionFalse, FailedReason,
                    <<"provided template is not marked as valid">>)), TRUE, 0),
      SetCondition([Call(c, "Get", "ClusterTemplate", "valid") EXCEPT
                      !.template = TemplateName,
                      !.mc.status.kubernetesVersion = "v1.30"],
               Cond(TemplateReadyCondition, ConditionTrue, SucceededReason,
                    <<"Template is valid">>)) }

\* Update, the template: fetch it and check Status.Valid.
CheckTemplate(c) ==
  IF c.done THEN {c}
  ELSE
    { Return(SetCondition(Call(c, "Get", "ClusterTemplate", "error"),
               Cond(TemplateReadyCondition, ConditionFalse, FailedReason,
                    <<"failed to get provided template: ", "error">>)), TRUE, 0),
      Return(SetCondition(Call(c, "Get", "ClusterTemplate", "NotFound"),
               Cond(TemplateReadyCondition, ConditionFalse, FailedReason,
                    <<"provided template is not found">>)), TRUE, 0),
      Return(SetCondition([Call(c, "Get", "ClusterTemplate", "invalid")
                             EXCEPT !.template = TemplateName],
               Cond(TemplateReadyCondition, ConditionFalse, FailedReason,
                    <<"provided template is not marked as valid">>)), TRUE, 0),
      SetCondition([Call(c, "Get", "ClusterTemplate", "valid") EXCEPT
                      !.template = TemplateName,
                      !.mc.status.kubernetesVersion = "v1.30"],
               Cond(TemplateReadyCondition, ConditionTrue, SucceededReason,
                    <<"Template is valid">>)) }

HelmChartFailed(c, message) ==
  Return(SetCondition(c, Cond(HelmChartReadyCondition, ConditionFalse, FailedReason,
                              message)), TRUE, 0)

\* getSource: no chart reference, or the Get of the HelmChart.
getSource(c) ==
  { Fail(Call(c, "getSource", "HelmChart", "nil ref")),
    Fail(Call(c, "Get", "HelmChart", "error")),
    Call(c, "Get", "HelmChart", "ok") }

\* Update, the chart: source, download, helm client, dry-run validation.
CheckChart(c) ==
  IF c.done THEN {c}
  ELSE
    LET validate(i) ==
          { HelmChartFailed(Call(i, "validateReleaseWithValues", "HelmChart", "error"),
              <<"failed to validate template with provided configuration: ", "error">>),
            SetCondition(Call(i, "validateReleaseWithValues", "HelmChart", "ok"),
              Cond(HelmChartReadyCondition, ConditionTrue, SucceededReason,
                   <<"Helm chart is valid">>)) }
        init(d) ==
          {Return(Call(d, "Init", "action.Configuration", "error"), TRUE, 0)}
          \cup validate(Call(d, "Init", "action.Configuration", "ok"))
        download(s) ==
          IF s.err
          THEN {HelmChartFailed([s EXCEPT !.err = FALSE],
                  <<"failed to get helm chart source: ", LastResult(s)>>)}
          ELSE {HelmChartFailed(Call(s, "DownloadChartFromArtifact", "HelmChart", "error"),
                  <<"failed to download helm chart: ", "error">>)}
               \cup init(Call(s, "DownloadChartFromArtifact", "HelmChart", "ok"))
    IN Bind(getSource(c), download)

\* Update, the credential: fetch it, then the two SetStatusCondition calls:
\* False when the state is not Ready, and True in every case.
CheckCredential(c) ==
  IF c.done THEN {c}
  ELSE
    LET isFalse == Cond(CredentialReadyCondition, ConditionFalse, FailedReason,
                        <<"Credential is not in Ready state">>)
        isTrue == Cond(CredentialReadyCondition, ConditionTrue, SucceededReason,
                       <<"Credential is Ready">>)
    IN {Return(SetCondition(Call(c, "Get", "Credential", e),
                 Cond(CredentialReadyCondition, ConditionFalse, FailedReason,
                      <<"Failed to get Credential: ", e>>)), TRUE, 0) :
          e \in {"error", "NotFound"}}
       \cup { SetCondition(SetCondition(Call(c, "Get", "Credential", "not ready"),
                                        isFalse), isTrue),
              SetCondition(Call(c, "Get", "Credential", "ready"), isTrue) }

\* helm.ReconcileHelmRelease: create or update the HelmRelease.
ReconcileHelmRelease(c) ==
  { Return(SetCondition(Call(c, "Upsert", "HelmRelease", "error"),
             Cond(HelmReleaseReadyCondition, ConditionFalse, FailedReason,
                  <<"error">>)), TRUE, 0),
    [Call(c, "Upsert", "HelmRelease", "ok") EXCEPT !.hr.exists = TRUE] }

\* Update, fluxconditions.Get(hr, Ready) mirrored when the release has one.
MirrorReleaseReady(c) ==
  IF c.done \/ c.hr.ready = "absent" THEN {c}
  ELSE {SetCondition(c, Cond(HelmReleaseReadyCondition, c.hr.ready,
                             "release reason", <<"release message">>))}

RECURSIVE MirrorConditions(_, _)
\* setStatusFromClusterStatus, the loop: every condition read is set on the
\* ManagedCluster, a True one with no reason as Succeeded.
MirrorConditions(conds, read) ==
  IF read = <<>> THEN conds
  ELSE LET m == Head(read)
           n == IF m.reason = "" /\ m.status = ConditionTrue
                THEN [m EXCEPT !.reason = SucceededReason] ELSE m
       IN MirrorConditions(SetStatusCondition(conds, n), Tail(read))

\* setStatusFromClusterStatus returning no requeue for incomplete conditions.
setStatusFromClusterStatus_IncompleteGoesOn(c) ==
  IF c.done THEN {c}
  ELSE
    { Return(Call(c, "GetResourceConditions", "Cluster", "error"), TRUE, 0),
      Return(Call(c, "GetResourceConditions", "Cluster", "NotFound"), FALSE,
             DefaultRequeueInterval) }
    \cup
    {[Call(c, "GetResourceConditions", "Cluster",
           IF \E i \in 1..Len(read) : read[i].status # "True"
           THEN "incomplete" ELSE "complete")
        EXCEPT !.mc.status.conditions = MirrorConditions(@, read)] :
       read \in ClusterConditionLists}

\* setStatusFromClusterStatus, and Update's use of its (requeue, err).
setStatusFromClusterStatus(c) ==
  IF c.done THEN {c}
  ELSE
    { Return(Call(c, "GetResourceConditions", "Cluster", "error"), TRUE, 0),
      Return(Call(c, "GetResourceConditions", "Cluster", "NotFound"), FALSE,
             DefaultRequeueInterval) }
    \cup
    {LET m == [Call(c, "GetResourceConditions", "Cluster",
                    IF \E i \in 1..Len(read) : read[i].status # "True"
                    THEN "incomplete" ELSE "complete")
                 EXCEPT !.mc.status.conditions = MirrorConditions(@, read)]
     IN IF LastResult(m) = "incomplete"
        THEN Return(m, FALSE, DefaultRequeueInterval) ELSE m :
       read \in ClusterConditionLists}

\* Update without the !fluxconditions.IsReady(hr) requeue.
AwaitRelease_GoesOn(c) == {c}

\* Update, !fluxconditions.IsReady(hr): requeue.
AwaitRelease(c) ==
  IF c.done THEN {c}
  ELSE {IF c.hr.ready # "True" THEN Return(c, FALSE, DefaultRequeueInterval) ELSE c}

CredentialsPropagated(c, status, message) ==
  SetCondition(c, Cond(CredentialsPropagatedCondition, status,
                       IF status = ConditionTrue THEN SucceededReason ELSE FailedReason,
                       message))

RECURSIVE propagateProviders_FailureGoesOn(_, _, _)
\* reconcileCredentialPropagation with a failed routine recorded and the loop
\* carried on to the next provider.
propagateProviders_FailureGoesOn(c, providers, i) ==
  IF i > Len(providers) THEN {c}
  ELSE
    LET provider == providers[i]
        routine(name, failed, created) ==
          propagateProviders_FailureGoesOn(
            Fail(CredentialsPropagated(Call(c, "Propagate", name, "error"),
                   ConditionFalse, <<failed, "error">>)), providers, i + 1)
          \cup propagateProviders_FailureGoesOn(
                 CredentialsPropagated(Call(c, "Propagate", name, "ok"),
                   ConditionTrue, <<created>>), providers, i + 1)
    IN CASE provider = aws -> propagateProviders_FailureGoesOn(c, providers, i + 1)
         [] provider = azure ->
              routine("azure", "failed to create Azure CCM credentials: ",
                      "Azure CCM credentials created")
         [] provider = vsphere ->
              routine("vsphere", "failed to create vSphere CCM credentials: ",
                      "vSphere CCM credentials created")
         [] OTHER ->
              propagateProviders_FailureGoesOn(
                CredentialsPropagated(c, ConditionFalse,
                  <<"unsupported infrastructure provider ">> \o provider),
                providers, i + 1)

RECURSIVE propagateProviders(_, _, _)
\* reconcileCredentialPropagation, the loop from provider i on.
propagateProviders(c, providers, i) ==
  IF i > Len(providers) THEN {c}
  ELSE
    LET provider == providers[i]
        routine(name, failed, created) ==
          { Fail(CredentialsPropagated(Call(c, "Propagate", name, "error"),
                   ConditionFalse, <<failed, "error">>)) }
          \cup propagateProviders(
                 CredentialsPropagated(Call(c, "Propagate", name, "ok"),
                   ConditionTrue, <<created>>), providers, i + 1)
    IN CASE provider = aws -> propagateProviders(c, providers, i + 1)
         [] provider = azure ->
              routine("azure", "failed to create Azure CCM credentials: ",
                      "Azure CCM credentials created")
         [] provider = vsphere ->
              routine("vsphere", "failed to create vSphere CCM credentials: ",
                      "vSphere CCM credentials created")
         [] OTHER ->
              propagateProviders(
                CredentialsPropagated(c, ConditionFalse,
                  <<"unsupported infrastructure provider ">> \o provider),
                providers, i + 1)

\* reconcileCredentialPropagation: err is set in the outcomes that return one.
reconcileCredentialPropagation(c) ==
  LET secret(o) ==
        IF o[1].err THEN {o[1]}
        ELSE {Fail(Call(o[1], "Get", "Secret", "error"))}
             \cup propagateProviders(Call(o[1], "Get", "Secret", "ok"), o[2], 1)
  IN Bind(getInfraProvidersNames(c), secret)

\* updateServices: the chart options of the services, then the Profile.
updateServices(c) ==
  { Return(Call(c, "helmChartOpts", "ServiceTemplate", "error"), TRUE, 0),
    Return(Call(Call(c, "helmChartOpts", "ServiceTemplate", "ok"),
                "Reconcile", "Profile", "error"), TRUE, 0),
    Return([Call(Call(c, "helmChartOpts", "ServiceTemplate", "ok"),
                 "Reconcile", "Profile", "ok")
              EXCEPT !.profile = [exists |-> TRUE, deletionTimestamp |-> FALSE]],
           FALSE, DefaultRequeueInterval) }

\* Update with the services step run without credential propagation.
PropagateAndAttach_ServicesOnly(c) ==
  IF c.done THEN {c} ELSE updateServices(c)

\* Update, the end of the non-dry-run branch: propagation, then services.
PropagateAndAttach(c) ==
  IF c.done THEN {c}
  ELSE UNION {IF p.err THEN {Return(p, TRUE, 0)} ELSE updateServices(p) :
                p \in reconcileCredentialPropagation(c)}

\* setIdentityHelmValues, then the release upsert.
UpsertRelease(c) ==
  {Return(Call(c, "setIdentityHelmValues", "Config", "error"), TRUE, 0)}
  \cup ReconcileHelmRelease(Call(c, "setIdentityHelmValues", "Config", "ok"))

\* Update without the test of Spec.DryRun.
Release_IgnoresDryRun(c) ==
  IF c.done THEN {c}
  ELSE Bind(Bind(Bind(Bind(UpsertRelease(c), MirrorReleaseReady),
                      setStatusFromClusterStatus), AwaitRelease),
            PropagateAndAttach)

\* Update, from the DryRun test to the end.
Release(c) ==
  IF c.done THEN {c}
  ELSE IF c.mc.dryRun THEN {Return(c, FALSE, 0)}
  ELSE Bind(Bind(Bind(Bind(UpsertRelease(c), MirrorReleaseReady),
                      setStatusFromClusterStatus), AwaitRelease),
            PropagateAndAttach)

\* Update with the status step run only on the returns without an error.
RunDeferred_OnSuccessOnly(c) ==
  IF c.path = "update" /\ ~c.err THEN Deferred(c) ELSE {c}

\* Update with the status step run at every return, the finalizer-add one included.
RunDeferred_EveryReturn(c) == Deferred(c)

\* The deferred updateStatus runs on every return after it was registered.
RunDeferred(c) == IF c.path = "update" THEN Deferred(c) ELSE {c}

\* Update: every outcome of one pass of the create/update path.
Update(c) ==
  Bind(Bind(Bind(Bind(Bind(Bind(AddFinalizer(c), EnsureConditions), CheckTemplate),
                      CheckChart), CheckCredential), Release), RunDeferred)

\* Reconcile with a failed tracking call returned as the pass's error.
Telemetry_TrackFailureEndsPass(c) ==
  IF c.mc.status.observedGeneration # 0 THEN {c}
  ELSE { Return([Call(c, "Get", "Management", "error") EXCEPT !.path = "telemetry"],
                TRUE, 0),
         Return([Call(Call(c, "Get", "Management", "ok"),
                      "Track", "ManagedClusterCreate", "error")
                   EXCEPT !.path = "telemetry"], TRUE, 0),
         Call(Call(c, "Get", "Management", "ok"),
              "Track", "ManagedClusterCreate", "ok") }

\* Reconcile, the creation telemetry of an object not yet observed: a failed
\* Get of the Management object ends the pass, a failed track is logged.
Telemetry(c) ==
  IF c.mc.status.observedGeneration # 0 THEN {c}
  ELSE { Return([Call(c, "Get", "Management", "error") EXCEPT !.path = "telemetry"],
                TRUE, 0) }
       \cup {Call(Call(c, "Get", "Management", "ok"),
                  "Track", "ManagedClusterCreate", r) : r \in {"error", "ok"}}

ContinueUpdate(c) == IF c.done THEN {c} ELSE Update(c)

\* Reconcile without the test of the deletion timestamp.
Reconcile_NoDeletionTest(c) ==
  {Return([Call(c, "Get", "ManagedCluster", "error") EXCEPT !.path = "get"], TRUE, 0)}
  \cup
  IF ~c.mc.exists
  THEN {Return([Call(c, "Get", "ManagedCluster", "NotFound") EXCEPT !.path = "gone"],
               FALSE, 0)}
  ELSE Bind(Telemetry(Call(c, "Get", "ManagedCluster", "ok")), ContinueUpdate)

\* Reconcile: every outcome of one pass.
Reconcile(c) ==
  {Return([Call(c, "Get", "ManagedCluster", "error") EXCEPT !.path = "get"], TRUE, 0)}
  \cup
  IF ~c.mc.exists
  THEN {Return([Call(c, "Get", "ManagedCluster", "NotFound") EXCEPT !.path = "gone"],
               FALSE, 0)}
  ELSE LET g == Call(c, "Get", "ManagedCluster", "ok") IN
       IF g.mc.deletionTimestamp THEN Delete(g)
       ELSE Bind(Telemetry(g), ContinueUpdate)

\* ---------------------------------------------------------------- actions

NoRelease == [exists |-> FALSE, deletionTimestamp |-> FALSE, ready |-> "absent"]
NoProfile == [exists |-> FALSE, deletionTimestamp |-> FALSE]
NoCluster == [exists |-> FALSE, finalizers |-> {}]

\* The store after the ManagedCluster was deleted.
Gone ==
  [exists |-> FALSE, deletionTimestamp |-> FALSE, finalizer |-> FALSE,
   generation |-> 0, dryRun |-> FALSE, status |-> NoStatus]

Init ==
  /\ managedCluster \in
       {[exists |-> TRUE, deletionTimestamp |-> FALSE, finalizer |-> FALSE,
         generation |-> 1, dryRun |-> d, status |-> NoStatus] : d \in BOOLEAN}
  /\ helmRelease = NoRelease
  /\ profile = NoProfile
  /\ clusters = [k \in ClusterKinds |-> NoCluster]
  /\ templateProviders \in ProviderLists
  /\ templateChains = TemplateChains
  /\ poller = NoPoller
  /\ faults = 0
  /\ pass = NoPass

\* One reconcile pass, from the Get of the object to the returned result.
\* The scheduling layer runs one pass at a time for the object: it starts a
\* pass once it has taken the result of the one before.
ReconcilePass ==
  /\ pass = NoPass
  /\ \E o \in Reconcile(NewCtx) :
    /\ o.faults <= MaxFaults
    /\ managedCluster' = IF o.stored.exists THEN o.stored ELSE Gone
    /\ helmRelease' = o.hr
    /\ profile' = o.profile
    /\ clusters' = o.clusters
    /\ faults' = o.faults
    /\ pass' = [path |-> o.path, calls |-> o.calls, err |-> o.err,
                requeueAfter |-> o.requeueAfter,
                deleting |-> managedCluster.deletionTimestamp,
                status |-> o.mc.status]
    /\ UNCHANGED <<templateProviders, templateChains, poller>>

\* The user deletes the ManagedCluster: the store sets the deletion marker,
\* and drops the object at once when it carries no finalizer.
RequestDeletion ==
  /\ managedCluster.exists /\ ~managedCluster.deletionTimestamp
  /\ managedCluster' = IF managedCluster.finalizer
                       THEN [managedCluster EXCEPT !.deletionTimestamp = TRUE]
                       ELSE Gone
  /\ pass' = NoPass
  /\ UNCHANGED <<helmRelease, profile, clusters, templateProviders, templateChains, poller, faults>>

\* The release engine reports the release's Ready condition.
ReleaseStatus ==
  /\ helmRelease.exists /\ ~helmRelease.deletionTimestamp
  /\ \E r \in {ConditionUnknown, ConditionTrue} \ {helmRelease.ready} :
       helmRelease' = [helmRelease EXCEPT !.ready = r]
  /\ pass' = NoPass
  /\ UNCHANGED <<managedCluster, profile, clusters, templateProviders, templateChains, poller, faults>>

\* The release engine installs the chart: a workload object for each
\* provider of the template that has a kind, created with the blocking finalizer.
InstallClusters ==
  /\ helmRelease.exists /\ ~helmRelease.deletionTimestamp
  /\ \A k \in ClusterKinds : ~clusters[k].exists
  /\ clusters' =
       [k \in ClusterKinds |->
          IF \E p \in Range(InfraProvidersNames(templateProviders)) :
               p \in DOMAIN providerGVKs /\ providerGVKs[p] = k
          THEN [exists |-> TRUE, finalizers |-> {BlockingFinalizer, ProviderFinalizer}]
          ELSE NoCluster]
  /\ clusters' # clusters
  /\ pass' = NoPass
  /\ UNCHANGED <<managedCluster, helmRelease, profile, templateProviders, templateChains, poller, faults>>

\* The release engine finishes a requested deletion of the release.
ReleaseRemoved ==
  /\ helmRelease.exists /\ helmRelease.deletionTimestamp
  /\ helmRelease' = NoRelease
  /\ pass' = NoPass
  /\ UNCHANGED <<managedCluster, profile, clusters, templateProviders, templateChains, poller, faults>>

\* The add-on controller finishes a requested deletion of the Profile.
ProfileRemoved ==
  /\ profile.exists /\ profile.deletionTimestamp
  /\ profile' = NoProfile
  /\ pass' = NoPass
  /\ UNCHANGED <<managedCluster, helmRelease, clusters, templateProviders, templateChains, poller, faults>>

\* The provider's controller removes a workload object that is being
\* uninstalled once nothing blocks it.
ClusterRemoved ==
  /\ ~helmRelease.exists \/ helmRelease.deletionTimestamp
  /\ \E k \in ClusterKinds :
       /\ clusters[k].exists /\ BlockingFinalizer \notin clusters[k].finalizers
       /\ clusters' = [clusters EXCEPT ![k] = NoCluster]
  /\ pass' = NoPass
  /\ UNCHANGED <<managedCluster, helmRelease, profile, templateProviders, templateChains, poller, faults>>

\* The scheduling layer takes the result of the pass that returned (done,
\* retry after the delay, or retry with backoff) and releases the worker.
Requeue ==
  /\ pass # NoPass
  /\ pass' = NoPass
  /\ UNCHANGED <<managedCluster, helmRelease, profile, clusters, templateProviders, templateChains, poller, faults>>

Next ==
  \/ ReconcilePass
  \/ Requeue
  \/ RequestDeletion
  \/ ReleaseStatus
  \/ InstallClusters
  \/ ReleaseRemoved
  \/ ProfileRemoved
  \/ ClusterRemoved

Spec == Init /\ [][Next]_vars

\* ------------------------------------------- the status step on its own

\* Conditions of every status, with an empty and two non-empty messages.
SomeConditions ==
  {Cond(t, st, "reason", m) :
     t \in {ReadyCondition, TemplateReadyCondition, HelmReleaseReadyCondition},
     st \in {ConditionTrue, ConditionFalse, ConditionUnknown},
     m \in {<<>>, <<"a">>, <<"b">>}}

\* Condition lists as SetStatusCondition keeps them: one condition per type.
ConditionLedgers ==
  {l \in UNION {[1..n -> SomeConditions] : n \in 0..MaxConditions} :
     \A i, j \in 1..Len(l) : l[i].type = l[j].type => i = j}

InitStatus ==
  /\ managedCluster \in
       {[exists |-> TRUE, deletionTimestamp |-> FALSE, finalizer |-> TRUE,
         generation |-> 1, dryRun |-> FALSE,
         status |-> [NoStatus EXCEPT !.conditions = l]] : l \in ConditionLedgers}
  /\ helmRelease = NoRelease
  /\ profile = NoProfile
  /\ clusters = [k \in ClusterKinds |-> NoCluster]
  /\ templateProviders \in ProviderLists
  /\ templateChains = TemplateChains
  /\ poller = NoPoller
  /\ faults = 0
  /\ pass = NoPass

\* updateStatus applied to the ManagedCluster as it is in the store.
PersistStatus ==
  /\ pass = NoPass
  /\ \E o \in updateStatus([NewCtx EXCEPT !.path = "updateStatus",
                                          !.template = TemplateName]) :
       /\ o.faults <= MaxFaults
       /\ managedCluster' = o.stored
       /\ faults' = o.faults
       /\ pass' = [path |-> o.path, calls |-> o.calls, err |-> o.err,
                   requeueAfter |-> 0, deleting |-> FALSE, status |-> o.mc.status]
  /\ UNCHANGED <<helmRelease, profile, clusters, templateProviders, templateChains, poller>>

SpecStatus == InitStatus /\ [][PersistStatus]_vars

\* ----------------------------------------------------------------- claims

HasCondition(conds, type, status, reason) ==
  \E i \in 1..Len(conds) :
    conds[i].type = type /\ conds[i].status = status /\ conds[i].reason = reason

OwnFinalizerRemoved == managedCluster.finalizer /\ ~managedCluster'.finalizer

\* The object was loaded in the pass that just returned.
Loaded == Returned(pass, "Get", "ManagedCluster", "ok")

\* The place of the first call of that verb and kind in the pass, 0 if none.
CallIndex(p, verb, kind) ==
  IF Called(p, verb, kind)
  THEN CHOOSE i \in 1..Len(p.calls) :
         /\ p.calls[i][1] = verb /\ p.calls[i][2] = kind
         /\ \A j \in 1..(i - 1) : ~(p.calls[j][1] = verb /\ p.calls[j][2] = kind)
  ELSE 0

\* The pass that just returned inspected or patched a provider workload object.
TouchedWorkload(p) ==
  \E k \in ClusterKinds :
    Called(p, "List", k) \/ Called(p, "List", MachinesOf(k)) \/ Called(p, "Patch", k)

\* C1: the ManagedCluster's own finalizer is never removed while a provider
\* workload object selected for the cluster still carries the blocking
\* finalizer.
C1_FinalizerWaitsForBlockingFinalizer ==
  [][OwnFinalizerRemoved =>
       \A k \in ClusterKinds : BlockingFinalizer \notin clusters'[k].finalizers]_vars

C3_FinalizerWaitsForProfile ==
  [][OwnFinalizerRemoved => ~profile'.exists]_vars

\* A step of releaseCluster returned an error in the pass.
ReleaseClusterFailed(p) ==
  \E i \in 1..Len(p.calls) :
    LET e == p.calls[i] IN
    \/ e[1] = "Get" /\ e[2] = "ClusterTemplate" /\ e[3] \in {"error", "NotFound"}
    \/ /\ e[1] = "List" /\ e[2] \in ClusterKinds
       /\ \/ e[3] \in {"error", "empty"}
          \/ e[3] = "NotFound" /\ e[2] # "AWSCluster"
    \/ e[1] = "List" /\ e[2] \in {MachinesOf(k) : k \in ClusterKinds} /\ e[3] = "error"
    \/ e[1] = "Patch" /\ e[3] = "error"

\* C4: the own finalizer is removed only in a deletion pass whose Get of
\* the HelmRelease returned NotFound; a pass in which that Get failed
\* otherwise, or DeleteHelmRelease, DeleteProfile or releaseCluster failed,
\* returns the error and leaves the finalizer in place.
C4_FinalizerOnlyOnReleaseNotFound ==
  /\ [][OwnFinalizerRemoved =>
          /\ pass'.path = "delete"
          /\ Returned(pass', "Get", "HelmRelease", "NotFound")]_vars
  /\ []((/\ pass.path = "delete"
         /\ \/ Returned(pass, "Get", "HelmRelease", "error")
            \/ Returned(pass, "Delete", "HelmRelease", "error")
            \/ Returned(pass, "Delete", "Profile", "error")
            \/ ReleaseClusterFailed(pass))
        => pass.err /\ managedCluster.exists /\ managedCluster.finalizer)

\* C4 witness: a deletion pass got NotFound for the release, removed the
\* finalizer, and the object is gone.
C4_Witness ==
  /\ pass.path = "delete" /\ Returned(pass, "Get", "HelmRelease", "NotFound")
  /\ Returned(pass, "Update", "ManagedCluster", "ok")
  /\ ~managedCluster.exists /\ ~pass.err

\* The calls of the creation path: telemetry, chart, credential, release,
\* cluster conditions, propagation, services, status.  (The ClusterTemplate
\* and the ManagedCluster are also fetched and written by the deletion path.)
CreationCalls ==
  { <<"Get", "Management">>, <<"Track", "ManagedClusterCreate">>,
    <<"getSource", "HelmChart">>, <<"Get", "HelmChart">>,
    <<"DownloadChartFromArtifact", "HelmChart">>, <<"Init", "action.Configuration">>,
    <<"validateReleaseWithValues", "HelmChart">>, <<"Get", "Credential">>,
    <<"setIdentityHelmValues", "Config">>, <<"Upsert", "HelmRelease">>,
    <<"GetResourceConditions", "Cluster">>, <<"Get", "Secret">>,
    <<"Propagate", "azure">>, <<"Propagate", "vsphere">>,
    <<"helmChartOpts", "ServiceTemplate">>, <<"Reconcile", "Profile">>,
    <<"List", "ClusterTemplateChain">>, <<"StatusUpdate", "ManagedCluster">> }

\* C5: a pass that loads a ManagedCluster with a deletion timestamp runs the
\* deletion path only: it makes no call of the creation path, the object
\* keeps the finalizer it had unless the deletion path removes it, and the
\* status in the store is left as it was.
C5_DeletionPathOnly ==
  /\ []((Loaded /\ pass.deleting) =>
          /\ pass.path = "delete"
          /\ \A i \in 1..Len(pass.calls) :
               <<pass.calls[i][1], pass.calls[i][2]>> \notin CreationCalls
          /\ Called(pass, "Get", "HelmRelease"))
  /\ [][(managedCluster.exists /\ managedCluster.deletionTimestamp) =>
          /\ ~managedCluster.finalizer => ~managedCluster'.finalizer
          /\ ~helmRelease.exists => ~helmRelease'.exists
          /\ ~profile.exists => ~profile'.exists
          /\ managedCluster'.exists => managedCluster'.status = managedCluster.status]_vars

\* C5 witness: a pass on an object marked for deletion requested the
\* deletion of the release.
C5_Witness ==
  /\ Loaded /\ pass.deleting /\ pass.path = "delete"
  /\ Returned(pass, "Delete", "HelmRelease", "ok")

\* C6 as claimed: a pass that found the template not valid attempts no
\* release upsert, returns an error, and the stored status carries
\* TemplateReady=False with reason Failed.
C6_InvalidTemplatePersisted ==
  Returned(pass, "Get", "ClusterTemplate", "invalid") =>
    /\ ~Called(pass, "Upsert", "HelmRelease")
    /\ pass.err
    /\ HasCondition(managedCluster.status.conditions,
                    TemplateReadyCondition, ConditionFalse, FailedReason)

\* C6 amended: a pass that found the template not valid makes no call of a
\* later stage (chart, credential, release upsert, propagation, services),
\* returns an error, and sets TemplateReady=False with reason Failed in the
\* status it hands to the status step; that status reaches the store exactly
\* when the listing of the template chains and the status write both succeed.
C6_InvalidTemplateStops ==
  Returned(pass, "Get", "ClusterTemplate", "invalid") =>
    /\ \A i \in 1..Len(pass.calls) :
         <<pass.calls[i][1], pass.calls[i][2]>> \notin
           (CreationCalls \ {<<"Get", "Management">>, <<"Track", "ManagedClusterCreate">>,
                             <<"List", "ClusterTemplateChain">>,
                             <<"StatusUpdate", "ManagedCluster">>})
    /\ pass.err
    /\ HasCondition(pass.status.conditions,
                    TemplateReadyCondition, ConditionFalse, FailedReason)
    /\ Called(pass, "List", "ClusterTemplateChain")
    /\ Called(pass, "StatusUpdate", "ManagedCluster")
         <=> Returned(pass, "List", "ClusterTemplateChain", "ok")
    /\ Returned(pass, "StatusUpdate", "ManagedCluster", "ok")
         => managedCluster.status = pass.status

\* C6 witness: the template was not valid and the status with
\* TemplateReady=False was written.
C6_Witness ==
  /\ Returned(pass, "Get", "ClusterTemplate", "invalid")
  /\ Returned(pass, "StatusUpdate", "ManagedCluster", "ok")
  /\ HasCondition(managedCluster.status.conditions,
                  TemplateReadyCondition, ConditionFalse, FailedReason)

\* C7: a pass that found the Credential not Ready requeues without a
\* release upsert, a credential propagation or a service attachment.
C7_CredentialNotReadyStops ==
  Returned(pass, "Get", "Credential", "not ready") =>
    /\ ~Called(pass, "Upsert", "HelmRelease")
    /\ ~Called(pass, "Get", "Secret")
    /\ ~Called(pass, "Propagate", "azure") /\ ~Called(pass, "Propagate", "vsphere")
    /\ ~Called(pass, "Reconcile", "Profile")
    /\ ~pass.err /\ pass.requeueAfter = DefaultRequeueInterval

\* C8: the status written at the end of a pass that found the Credential not
\* Ready has CredentialReady=False, and so Ready=False.
C8_CredentialNotReadyPersistedFalse ==
  (/\ Returned(pass, "Get", "Credential", "not ready")
   /\ Returned(pass, "StatusUpdate", "ManagedCluster", "ok")) =>
    /\ HasCondition(managedCluster.status.conditions,
                    CredentialReadyCondition, ConditionFalse, FailedReason)
    /\ \E i \in 1..Len(managedCluster.status.conditions) :
         /\ managedCluster.status.conditions[i].type = ReadyCondition
         /\ managedCluster.status.conditions[i].status = ConditionFalse

\* The aggregation rule: the umbrella condition that follows from the
\* non-Ready conditions, each message of the chosen status followed by sep.
ReadyRule(conds, sep) ==
  LET others == SelectSeq(conds, LAMBDA c : c.type # ReadyCondition)
      of(st) == SelectSeq(others, LAMBDA c : c.status = st)
      text(sel) == Flatten([i \in 1..Len(sel) |-> sel[i].message \o sep])
  IN IF of(ConditionFalse) # <<>>
     THEN Cond(ReadyCondition, ConditionFalse, FailedReason, text(of(ConditionFalse)))
     ELSE IF of(ConditionUnknown) # <<>>
     THEN Cond(ReadyCondition, ConditionUnknown, ProgressingReason,
               text(of(ConditionUnknown)))
     ELSE Cond(ReadyCondition, ConditionTrue, SucceededReason,
               <<"ManagedCluster is ready">>)

\* The one Ready condition of the list follows the rule, and the other
\* conditions are the ones the store had or has.
FollowsRule(conds, sep) ==
  /\ \E i \in 1..Len(conds) :
       /\ conds[i] = ReadyRule(conds, sep)
       /\ \A j \in 1..Len(conds) : conds[j].type = ReadyCondition => j = i
  /\ SelectSeq(conds, LAMBDA c : c.type # ReadyCondition)
       = SelectSeq(managedCluster.status.conditions, LAMBDA c : c.type # ReadyCondition)

\* C9 as claimed: the status step leaves one Ready condition: False/Failed
\* with the messages of the False conditions concatenated in list order if
\* there is one, else Unknown/Progressing with the messages of the Unknown
\* conditions concatenated, else True; whatever Ready was before.
C9_ReadyIsConcatenation ==
  pass.path = "updateStatus" => FollowsRule(pass.status.conditions, <<>>)

\* C9 amended: the same rule, with each message of the False (else Unknown)
\* conditions followed by ". " in the concatenation; the True condition has
\* reason Succeeded and the message "ManagedCluster is ready".
C9_ReadyIsConcatenationWithStops ==
  pass.path = "updateStatus" => FollowsRule(pass.status.conditions, <<". ">>)

\* C9 witness: the step ran on a list with a False and an Unknown condition
\* and a Ready condition that said True, and the store kept that list.
C9_Witness ==
  /\ pass.path = "updateStatus" /\ pass.err
  /\ HasCondition(managedCluster.status.conditions, ReadyCondition, ConditionTrue, "reason")
  /\ \E i, j \in 1..Len(pass.status.conditions) :
       /\ pass.status.conditions[i].type # ReadyCondition
       /\ pass.status.conditions[i].status = ConditionFalse
       /\ pass.status.conditions[i].message # <<>>
       /\ pass.status.conditions[j].type # ReadyCondition
       /\ pass.status.conditions[j].status = ConditionUnknown
  /\ HasCondition(pass.status.conditions, ReadyCondition, ConditionFalse, FailedReason)

\* The pass returned from Update after its deferred function was registered:
\* the object was loaded without a deletion timestamp, with the finalizer
\* already on it, and the telemetry step did not end the pass.
UpdateExit(p) ==
  /\ Returned(p, "Get", "ManagedCluster", "ok") /\ ~p.deleting
  /\ ~Called(p, "Update", "ManagedCluster")
  /\ ~Returned(p, "Get", "Management", "error")

\* C10 as claimed: every pass that loaded the object recomputes the status
\* and writes the status subresource before it returns.
C10_EveryExitPersistsStatus ==
  Loaded =>
    /\ Called(pass, "List", "ClusterTemplateChain")
    /\ Called(pass, "StatusUpdate", "ManagedCluster")

\* C10 amended: the status step runs in exactly the passes that return from
\* Update after the finalizer step, with an error or without: it sets the
\* observed generation, recomputes Ready, lists the template chains, and
\* writes the status when the listing succeeded; a failed listing or write
\* makes the pass return an error.  The passes that add the finalizer, run
\* the deletion path, fail at telemetry or fail to load the object do not
\* run the step.
C10_UpdateExitsRunStatusStep ==
  /\ Called(pass, "List", "ClusterTemplateChain") <=> UpdateExit(pass)
  /\ Called(pass, "StatusUpdate", "ManagedCluster")
       <=> Returned(pass, "List", "ClusterTemplateChain", "ok")
  /\ UpdateExit(pass) =>
       /\ pass.status.observedGeneration = managedCluster.generation
       /\ \E i \in 1..Len(pass.status.conditions) :
            pass.status.conditions[i] = ReadyRule(pass.status.conditions, <<". ">>)
       /\ Returned(pass, "List", "ClusterTemplateChain", "ok") =>
            Range(pass.status.availableUpgrades) =
              AvailableUpgradesMap(TemplateChains,
                IF \E r \in {"valid", "invalid"} :
                     Returned(pass, "Get", "ClusterTemplate", r)
                THEN TemplateName ELSE "")
       /\ Returned(pass, "StatusUpdate", "ManagedCluster", "ok") =>
            managedCluster.status = pass.status
       /\ (\/ Returned(pass, "List", "ClusterTemplateChain", "error")
           \/ Returned(pass, "StatusUpdate", "ManagedCluster", "error")) => pass.err

\* C10 witness: a pass that returned an error from Update wrote the status.
C10_Witness ==
  /\ UpdateExit(pass) /\ pass.err
  /\ Returned(pass, "Get", "Credential", "NotFound")
  /\ Returned(pass, "StatusUpdate", "ManagedCluster", "ok")
  /\ managedCluster.status = pass.status

\* The pass ended in a timed requeue before the services step: the release
\* or the workload had not converged.
TimedRequeueBeforeServices(p) ==
  /\ p.requeueAfter = DefaultRequeueInterval
  /\ ~Called(p, "Reconcile", "Profile")

\* The stored ObservedGeneration changed in this step.
ObservedGenerationAdvanced ==
  /\ managedCluster'.exists
  /\ managedCluster'.status.observedGeneration # managedCluster.status.observedGeneration

\* C11 as claimed: the stored ObservedGeneration is advanced only by a pass
\* that returned from Update past the finalizer step, and never by a pass
\* that ended in a timed requeue because the release or the workload had not
\* converged.
C11_ObservedGenerationOnlyOnFullAttempt ==
  [][ObservedGenerationAdvanced =>
       UpdateExit(pass') /\ ~TimedRequeueBeforeServices(pass')]_vars

\* C11 amended: the stored ObservedGeneration is advanced only by the status
\* step, which runs at every return of Update past the finalizer step, the
\* timed requeues included: a pass that wrote the status leaves
\* ObservedGeneration equal to Generation, and the finalizer-add pass, a
\* deletion pass and a pass that fails before Update never change it.
C11_ObservedGenerationSetByStatusStep ==
  /\ [][ObservedGenerationAdvanced =>
          /\ UpdateExit(pass')
          /\ Returned(pass', "StatusUpdate", "ManagedCluster", "ok")]_vars
  /\ []((UpdateExit(pass) /\ Returned(pass, "StatusUpdate", "ManagedCluster", "ok"))
          => managedCluster.status.observedGeneration = managedCluster.generation)

\* C11 witness: a first pass past the finalizer step ended in a timed requeue
\* with the release not yet Ready, and wrote ObservedGeneration = Generation.
C11_Witness ==
  /\ UpdateExit(pass) /\ TimedRequeueBeforeServices(pass)
  /\ Called(pass, "Get", "Management")
  /\ Returned(pass, "Upsert", "HelmRelease", "ok")
  /\ Returned(pass, "StatusUpdate", "ManagedCluster", "ok")
  /\ managedCluster.status.observedGeneration = managedCluster.generation
  /\ managedCluster.generation # 0

LastCallOf(p, verb) ==
  IF \E i \in 1..Len(p.calls) : p.calls[i][1] = verb
  THEN CHOOSE i \in 1..Len(p.calls) :
         /\ p.calls[i][1] = verb
         /\ \A j \in (i + 1)..Len(p.calls) : p.calls[j][1] # verb
  ELSE 0

\* The one condition of the type in the list is this one.
ConditionIs(conds, cond) ==
  /\ \E i \in 1..Len(conds) : conds[i] = cond
  /\ \A i \in 1..Len(conds) : conds[i].type = cond.type => conds[i] = cond

\* C13: a propagation routine that fails is the last one invoked in the pass:
\* no routine of a later provider runs, the services step does not run, the
\* pass returns an error, and CredentialsPropagated is False with the message
\* of the failing provider alone.
C13_PropagationFailsFast ==
  \A name \in {"azure", "vsphere"} :
    Returned(pass, "Propagate", name, "error") =>
      /\ pass.calls[LastCallOf(pass, "Propagate")] = <<"Propagate", name, "error">>
      /\ \A i \in 1..Len(pass.calls) :
           pass.calls[i][1] = "Propagate" /\ i # LastCallOf(pass, "Propagate")
             => pass.calls[i][3] = "ok"
      /\ name = "azure" => ~Called(pass, "Propagate", "vsphere")
      /\ ~Called(pass, "helmChartOpts", "ServiceTemplate")
      /\ ~Called(pass, "Reconcile", "Profile")
      /\ pass.err
      /\ ConditionIs(pass.status.conditions,
           Cond(CredentialsPropagatedCondition, ConditionFalse, FailedReason,
                IF name = "azure"
                THEN <<"failed to create Azure CCM credentials: ", "error">>
                ELSE <<"failed to create vSphere CCM credentials: ", "error">>))

\* C13 witness: the template lists azure before vsphere, azure's routine
\* failed, and the status with its message was written.
C13_Witness ==
  /\ InfraProvidersNames(templateProviders) = <<<<"openstack">>, azure, vsphere>>
  /\ Returned(pass, "Propagate", "azure", "error")
  /\ ~Called(pass, "Propagate", "vsphere")
  /\ pass.err
  /\ Returned(pass, "StatusUpdate", "ManagedCluster", "ok")
  /\ managedCluster.status = pass.status

\* The infrastructure providers of the template that have no propagation
\* routine and are not the one the loop skips by name.
UnsupportedProviders ==
  {p \in Range(InfraProvidersNames(templateProviders)) : p \notin {aws, azure, vsphere}}

\* C14: a pass that gets to credential propagation with a provider that has
\* no routine ends with CredentialsPropagated=False carrying the
\* unsupported-provider message, invokes no routine of another provider,
\* returns an error and does not run the services step.
C14_UnsupportedProviderAborts ==
  (Returned(pass, "Get", "Secret", "ok") /\ UnsupportedProviders # {}) =>
    /\ \E p \in UnsupportedProviders :
         ConditionIs(pass.status.conditions,
           Cond(CredentialsPropagatedCondition, ConditionFalse, FailedReason,
                <<"unsupported infrastructure provider ">> \o p))
    /\ ~Called(pass, "Propagate", "azure") /\ ~Called(pass, "Propagate", "vsphere")
    /\ pass.err
    /\ ~Called(pass, "helmChartOpts", "ServiceTemplate")
    /\ ~Called(pass, "Reconcile", "Profile")

\* The status step of the pass returned an error of its own.
StatusStepFailed(p) ==
  \/ Returned(p, "List", "ClusterTemplateChain", "error")
  \/ Returned(p, "StatusUpdate", "ManagedCluster", "error")

\* The calls of the release, propagation and services stages.
ReleaseStageCalls ==
  { <<"setIdentityHelmValues", "Config">>, <<"Upsert", "HelmRelease">>,
    <<"GetResourceConditions", "Cluster">>, <<"Get", "Secret">>,
    <<"Propagate", "azure">>, <<"Propagate", "vsphere">>,
    <<"helmChartOpts", "ServiceTemplate">>, <<"Reconcile", "Profile">> }

PropagationFailed(p) ==
  \/ Returned(p, "Get", "ClusterTemplate", "error")
  \/ Returned(p, "Get", "ClusterTemplate", "NotFound")
  \/ Returned(p, "Get", "Secret", "error")
  \/ Returned(p, "Propagate", "azure", "error")
  \/ Returned(p, "Propagate", "vsphere", "error")

C18_EveryErrorHasAFalseCondition ==
  (/\ UpdateExit(pass) /\ pass.err
   /\ Returned(pass, "StatusUpdate", "ManagedCluster", "ok")) =>
    /\ \E i \in 1..Len(managedCluster.status.conditions) :
         /\ managedCluster.status.conditions[i].type # ReadyCondition
         /\ managedCluster.status.conditions[i].status = ConditionFalse
    /\ \E i \in 1..Len(managedCluster.status.conditions) :
         /\ managedCluster.status.conditions[i].type = ReadyCondition
         /\ managedCluster.status.conditions[i].status = ConditionFalse

\* C19: every pass past the finalizer step fetches the template again, and a
\* pass that finds it valid while the stored status says TemplateReady=False
\* sets TemplateReady=True, goes on to the chart stage, and stores the True
\* condition when its status write succeeds.
C19_TemplateFailureIsNotPermanent ==
  /\ [](UpdateExit(pass) => Called(pass, "Get", "ClusterTemplate"))
  /\ [][(/\ HasCondition(managedCluster.status.conditions,
                         TemplateReadyCondition, ConditionFalse, FailedReason)
         /\ Returned(pass', "Get", "ClusterTemplate", "valid")) =>
          /\ ConditionIs(pass'.status.conditions,
               Cond(TemplateReadyCondition, ConditionTrue, SucceededReason,
                    <<"Template is valid">>))
          /\ \/ Called(pass', "getSource", "HelmChart")
             \/ Called(pass', "Get", "HelmChart")
          /\ Returned(pass', "StatusUpdate", "ManagedCluster", "ok") =>
               ConditionIs(managedCluster'.status.conditions,
                 Cond(TemplateReadyCondition, ConditionTrue, SucceededReason,
                      <<"Template is valid">>))]_vars

\* C19 witness: the store still has the TemplateReady=False of an earlier
\* pass (the status step of this pass failed), and this pass found the
\* template valid, set TemplateReady=True and went on to the chart.
C19_Witness ==
  /\ HasCondition(managedCluster.status.conditions,
                  TemplateReadyCondition, ConditionFalse, FailedReason)
  /\ Returned(pass, "Get", "ClusterTemplate", "valid")
  /\ HasCondition(pass.status.conditions,
                  TemplateReadyCondition, ConditionTrue, SucceededReason)
  /\ Returned(pass, "validateReleaseWithValues", "HelmChart", "ok")

\* ------------------------------------------------- re-entry of the Update path

\* A ManagedCluster that has its finalizer and no status yet, as the
\* finalizer-add pass leaves it.
InitReentry ==
  /\ managedCluster \in
       {[exists |-> TRUE, deletionTimestamp |-> FALSE, finalizer |-> TRUE,
         generation |-> 1, dryRun |-> d, status |-> NoStatus] : d \in BOOLEAN}
  /\ helmRelease = NoRelease
  /\ profile = NoProfile
  /\ clusters = [k \in ClusterKinds |-> NoCluster]
  /\ templateProviders \in ProviderLists
  /\ templateChains = TemplateChains
  /\ poller = NoPoller
  /\ faults = 0
  /\ pass = NoPass

\* Passes over an object that is not deleted, each starting from the status
\* the passes before it stored.
NextReentry ==
  \/ ReconcilePass
  \/ Requeue
  \/ ReleaseStatus

SpecReentry == InitReentry /\ [][NextReentry]_vars

\* The pass about to run, started from an empty condition set.
FreshCtx ==
  [NewCtx EXCEPT !.mc.status.conditions = <<>>, !.stored.status.conditions = <<>>]

\* The pass run once more, from the status and the objects it left.
AgainCtx ==
  [NewCtx EXCEPT !.mc.status = pass'.status, !.stored.status = pass'.status,
                 !.hr = helmRelease', !.profile = profile']

\* The calls of a pass without the creation telemetry of the first one.
StageCalls(calls) ==
  SelectSeq(calls, LAMBDA e : e[2] \notin {"Management", "ManagedClusterCreate"})

C21_BlockingFinalizerOnlyWithoutMachines ==
  [][\A k \in ClusterKinds :
       /\ (pass' # NoPass /\ clusters'[k] # clusters[k]) =>
            /\ pass'.path = "delete" /\ pass'.deleting
            /\ Returned(pass', "List", MachinesOf(k), "none")
            /\ Returned(pass', "Patch", k, "ok")
            /\ clusters'[k] =
                 [clusters[k] EXCEPT !.finalizers = @ \ {BlockingFinalizer}]
       /\ (pass' # NoPass /\ Returned(pass', "List", MachinesOf(k), "found")) =>
            /\ clusters'[k] = clusters[k]
            /\ ~Called(pass', "Patch", k)]_vars

\* C21 witness: a deletion pass found no Machine of the AzureCluster and
\* patched it; the provider's own finalizer is still on it.
C21_Witness ==
  /\ pass.path = "delete"
  /\ Returned(pass, "List", MachinesOf("AzureCluster"), "none")
  /\ Returned(pass, "Patch", "AzureCluster", "ok")
  /\ clusters["AzureCluster"].exists
  /\ clusters["AzureCluster"].finalizers = {ProviderFinalizer}

\* C22: in the provider cleanup of a deletion pass, a lookup that finds no
\* AWSCluster ends the cleanup without error (the pass requeues), and a lookup
\* that finds no AzureCluster makes the pass return an error.
C22_AbsentWorkloadByProvider ==
  /\ (pass.path = "delete" /\ Returned(pass, "List", "AWSCluster", "empty")) =>
       ~pass.err /\ pass.requeueAfter = DefaultRequeueInterval
  /\ (pass.path = "delete" /\ Returned(pass, "List", "AzureCluster", "empty")) =>
       pass.err

\* -------------------------------------------- the upgrade resolver on its own

\* Supported-template entries: for the cluster's template with no upgrade,
\* one, or another one, and for the template that is its upgrade.
SupportedTemplates ==
  { [name |-> TemplateName, availableUpgrades |-> <<>>],
    [name |-> TemplateName, availableUpgrades |-> <<"template-b">>],
    [name |-> TemplateName, availableUpgrades |-> <<"template-c", "template-b">>],
    [name |-> "template-b", availableUpgrades |-> <<"template-c">>] }

\* Every list of template chains within the bounds.
ChainLists ==
  LET chainsOf == UNION {[1..n -> SupportedTemplates] : n \in 1..MaxSupported}
  IN UNION {[1..n -> chainsOf] : n \in 0..MaxChains}

InitUpgrades ==
  /\ managedCluster =
       [exists |-> TRUE, deletionTimestamp |-> FALSE, finalizer |-> TRUE,
        generation |-> 1, dryRun |-> FALSE, status |-> NoStatus]
  /\ helmRelease = NoRelease
  /\ profile = NoProfile
  /\ clusters = [k \in ClusterKinds |-> NoCluster]
  /\ templateProviders = <<<<infraPrefix, "aws">>>>
  /\ templateChains \in ChainLists
  /\ poller = NoPoller
  /\ faults = 0
  /\ pass = NoPass

\* The status step, and in it the resolver, over every list of chains.
SpecUpgrades == InitUpgrades /\ [][PersistStatus]_vars

\* The names declared as upgrades of the template by an entry of a chain.
DirectTargets(chains, name) ==
  {u \in {"template-a", "template-b", "template-c"} :
     \E i \in 1..Len(chains) : \E j \in 1..Len(chains[i]) :
       chains[i][j].name = name /\ u \in Range(chains[i][j].availableUpgrades)}

\* C23: the available upgrades the status step computes are, as a set, the
\* names declared directly for the template in the chains' entries: no name
\* twice, no target of a target, nothing declared for another template; the
\* set is the same for every order of the chain list; with no target the list
\* is empty, and the resolver returns no error when the List succeeded.
C23_UpgradesAreTheDirectTargets ==
  (pass.path = "updateStatus"
   /\ Returned(pass, "List", "ClusterTemplateChain", "ok")) =>
    LET ups == pass.status.availableUpgrades
        n == Len(templateChains)
    IN /\ Range(ups) = DirectTargets(templateChains, TemplateName)
       /\ \A i, j \in 1..Len(ups) : ups[i] = ups[j] => i = j
       /\ \A p \in Perms(1..n) :
            AvailableUpgradesMap([i \in 1..n |-> templateChains[p[i]]], TemplateName)
              = Range(ups)
       /\ DirectTargets(templateChains, TemplateName) = {} => ups = <<>>
       /\ Called(pass, "StatusUpdate", "ManagedCluster")
       /\ pass.err <=> Returned(pass, "StatusUpdate", "ManagedCluster", "error")

\* C23 witness: two chains declare template-b for the template, one of them
\* also declares template-c for template-b; the stored list is template-b once.
C23_Witness ==
  /\ templateChains =
       << <<[name |-> TemplateName, availableUpgrades |-> <<"template-b">>],
            [name |-> "template-b", availableUpgrades |-> <<"template-c">>]>>,
          <<[name |-> TemplateName, availableUpgrades |-> <<"template-b">>]>> >>
  /\ pass.path = "updateStatus" /\ ~pass.err
  /\ managedCluster.status.availableUpgrades = <<"template-b">>

\* What the first call of that verb and kind in the pass returned.
FirstResult(p, verb, kind) ==
  IF Called(p, verb, kind) THEN p.calls[CallIndex(p, verb, kind)][3] ELSE "none"

\* The calls of the chart stage and of the release upsert.
ChartStageCalls ==
  { <<"getSource", "HelmChart">>, <<"Get", "HelmChart">>,
    <<"DownloadChartFromArtifact", "HelmChart">>, <<"Init", "action.Configuration">>,
    <<"validateReleaseWithValues", "HelmChart">> }

UpsertStageCalls ==
  { <<"setIdentityHelmValues", "Config">>, <<"Upsert", "HelmRelease">> }

\* The stage of a call: 1 template, 2 chart, 3 credential, 4 release upsert,
\* 5 what comes after the upsert, 0 for the calls around the stages.
StageOf(e) ==
  CASE <<e[1], e[2]>> = <<"Get", "ClusterTemplate">> -> 1
    [] <<e[1], e[2]>> \in ChartStageCalls -> 2
    [] <<e[1], e[2]>> = <<"Get", "Credential">> -> 3
    [] <<e[1], e[2]>> \in UpsertStageCalls -> 4
    [] <<e[1], e[2]>> \in ReleaseStageCalls -> 5
    [] OTHER -> 0

\* The stage that failed in the pass, 0 if none of the four did.
FailedStage(p) ==
  CASE FirstResult(p, "Get", "ClusterTemplate") \in {"error", "NotFound", "invalid"} -> 1
    [] \E i \in 1..Len(p.calls) :
         StageOf(p.calls[i]) = 2 /\ p.calls[i][3] \in {"error", "nil ref"} -> 2
    [] FirstResult(p, "Get", "Credential") \in {"error", "NotFound"} -> 3
    [] \E i \in 1..Len(p.calls) :
         StageOf(p.calls[i]) = 4 /\ p.calls[i][3] = "error" -> 4
    [] OTHER -> 0

StageCondition(stage) ==
  CASE stage = 1 -> TemplateReadyCondition
    [] stage = 2 -> HelmChartReadyCondition
    [] stage = 3 -> CredentialReadyCondition
    [] OTHER -> HelmReleaseReadyCondition

\* C25: in a pass through Update the first calls of the stages come in the
\* order template, chart, credential, release upsert; a pass in which a stage
\* failed has that stage's condition False with reason Failed, returns an
\* error and no requeue delay, and makes no call of a later stage; the message
\* of a template that is not found is not the one of another failed fetch.
C25_StagesInOrderFailFast ==
  UpdateExit(pass) =>
    LET first(s) == {i \in 1..Len(pass.calls) :
                       /\ StageOf(pass.calls[i]) = s
                       /\ \A j \in 1..(i - 1) : StageOf(pass.calls[j]) # s}
        failed == FailedStage(pass)
        notFound == Cond(TemplateReadyCondition, ConditionFalse, FailedReason,
                         <<"provided template is not found">>)
    IN /\ \A s, t \in 1..4 : \A i \in first(s), j \in first(t) : s < t => i < j
       /\ failed # 0 =>
            /\ HasCondition(pass.status.conditions, StageCondition(failed),
                            ConditionFalse, FailedReason)
            /\ pass.err /\ pass.requeueAfter = 0
            /\ \A i \in 1..Len(pass.calls) : StageOf(pass.calls[i]) <= failed
       /\ FirstResult(pass, "Get", "ClusterTemplate") = "NotFound" =>
            ConditionIs(pass.status.conditions, notFound)
       /\ FirstResult(pass, "Get", "ClusterTemplate") = "error" =>
            ~ConditionIs(pass.status.conditions, notFound)

\* A condition as setStatusFromClusterStatus sets it on the ManagedCluster.
Mirrored(m) ==
  IF m.reason = "" /\ m.status = ConditionTrue
  THEN [m EXCEPT !.reason = SucceededReason] ELSE m

C27_EveryProviderExamined ==
  (/\ pass.path = "delete" /\ ~pass.err
   /\ Returned(pass, "Get", "ClusterTemplate", "ok")) =>
    \A p \in Range(InfraProvidersNames(templateProviders)) \cap DOMAIN providerGVKs :
      LET kind == providerGVKs[p] IN
      /\ Called(pass, "List", kind)
      /\ (/\ Returned(pass, "List", kind, "found")
          /\ Returned(pass, "List", MachinesOf(kind), "none")) =>
           BlockingFinalizer \notin clusters[kind].finalizers

\* The telemetry step of the pass failed: the Get of the Management object
\* or the tracking call.
TelemetryFailed(p) ==
  \/ Returned(p, "Get", "Management", "error")
  \/ Returned(p, "Track", "ManagedClusterCreate", "error")

\* C29 as claimed: telemetry is attempted only for a loaded object without a
\* deletion marker whose stored ObservedGeneration is 0, and a pass in which
\* the telemetry step failed, at the Get of the Management object or at the
\* tracking call, goes on to Update and its calls.
C29_TelemetryNeverChangesTheResult ==
  [][/\ (Called(pass', "Get", "Management")
         \/ Called(pass', "Track", "ManagedClusterCreate")) =>
          /\ managedCluster.exists /\ ~managedCluster.deletionTimestamp
          /\ managedCluster.status.observedGeneration = 0
     /\ TelemetryFailed(pass') =>
          /\ pass'.path \in {"finalizer", "update"}
          /\ Len(pass'.calls) > 3]_vars

\* The calls of a pass with the tracking call's result taken as ok.
TrackedOk(calls) ==
  [i \in 1..Len(calls) |->
     IF calls[i][2] = "ManagedClusterCreate"
     THEN <<"Track", "ManagedClusterCreate", "ok">> ELSE calls[i]]

\* C29 amended: telemetry is attempted only for a loaded object without a
\* deletion marker whose stored ObservedGeneration is 0, and the tracking call
\* only once the Management object was read.  A failed tracking call changes
\* nothing: Update runs, and the calls, the result and the objects written are
\* those of the pass in which tracking succeeds.  A failed Get of the
\* Management object ends the pass there: it returns the error, Update does
\* not run and nothing is written.
C29_TrackingIsFireAndForget ==
  [][/\ (Called(pass', "Get", "Management")
         \/ Called(pass', "Track", "ManagedClusterCreate")) =>
          /\ managedCluster.exists /\ ~managedCluster.deletionTimestamp
          /\ managedCluster.status.observedGeneration = 0
     /\ Called(pass', "Track", "ManagedClusterCreate") =>
          /\ Returned(pass', "Get", "Management", "ok")
          /\ pass'.path \in {"finalizer", "update"}
     /\ Returned(pass', "Track", "ManagedClusterCreate", "error") =>
          \E o \in Reconcile(NewCtx) :
            /\ Returned(o, "Track", "ManagedClusterCreate", "ok")
            /\ o.calls = TrackedOk(pass'.calls)
            /\ o.err = pass'.err /\ o.requeueAfter = pass'.requeueAfter
            /\ o.mc.status = pass'.status
            /\ o.stored = managedCluster' /\ o.hr = helmRelease'
            /\ o.profile = profile' /\ o.clusters = clusters'
     /\ Returned(pass', "Get", "Management", "error") =>
          /\ pass'.path = "telemetry" /\ pass'.err /\ pass'.requeueAfter = 0
          /\ Len(pass'.calls) = 2
          /\ UNCHANGED <<managedCluster, helmRelease, profile, clusters>>]_vars

\* C29 witness: the tracking call failed in a pass that went on through
\* Update to the release upsert and returned no error.
C29_Witness ==
  /\ Returned(pass, "Track", "ManagedClusterCreate", "error")
  /\ Returned(pass, "Upsert", "HelmRelease", "ok")
  /\ pass.path = "update" /\ ~pass.err /\ helmRelease.exists

\* ---------------------------------------------------- deletion under fairness

\* What the release of a ManagedCluster that is deleted can have come to: no
\* release yet, a release not yet installed, its workload objects installed,
\* and the services Profile attached.
DeletingStores ==
  LET ready == [exists |-> TRUE, deletionTimestamp |-> FALSE, ready |-> ConditionTrue]
      installed(l) ==
        [k \in ClusterKinds |->
           IF \E p \in Range(InfraProvidersNames(l)) :
                p \in DOMAIN providerGVKs /\ providerGVKs[p] = k
           THEN [exists |-> TRUE, finalizers |-> {BlockingFinalizer, ProviderFinalizer}]
           ELSE NoCluster]
      none == [k \in ClusterKinds |-> NoCluster]
  IN UNION {{ [hr |-> NoRelease, profile |-> NoProfile, clusters |-> none, providers |-> l],
              [hr |-> [ready EXCEPT !.ready = "absent"], profile |-> NoProfile,
               clusters |-> none, providers |-> l],
              [hr |-> ready, profile |-> NoProfile, clusters |-> installed(l),
               providers |-> l],
              [hr |-> ready, profile |-> [exists |-> TRUE, deletionTimestamp |-> FALSE],
               clusters |-> installed(l), providers |-> l] } : l \in ProviderLists}

\* A ManagedCluster with its finalizer that the user has just deleted.
InitDeleting ==
  /\ managedCluster =
       [exists |-> TRUE, deletionTimestamp |-> TRUE, finalizer |-> TRUE,
        generation |-> 1, dryRun |-> FALSE, status |-> NoStatus]
  /\ \E s \in DeletingStores :
       /\ helmRelease = s.hr
       /\ profile = s.profile
       /\ clusters = s.clusters
       /\ templateProviders = s.providers
  /\ templateChains = TemplateChains
  /\ poller = NoPoller
  /\ faults = 0
  /\ pass = NoPass

NextDeleting ==
  \/ ReconcilePass
  \/ Requeue
  \/ ReleaseStatus
  \/ InstallClusters
  \/ ReleaseRemoved
  \/ ProfileRemoved
  \/ ClusterRemoved

\* The scheduling layer keeps running passes and taking their results, and the
\* release engine finishes the deletion of a release that was requested.  The
\* store calls that fail are bounded by MaxFaults, so they succeed in the end.
SpecDeleting ==
  /\ InitDeleting /\ [][NextDeleting]_vars
  /\ WF_vars(ReconcilePass)
  /\ WF_vars(Requeue)
  /\ WF_vars(ReleaseRemoved)

\* C30: a ManagedCluster with a deletion marker is eventually gone from the
\* store: its finalizer is removed, whatever the provider cleanup returned in
\* the passes that found the release.
C30_DeletionCompletes ==
  (managedCluster.exists /\ managedCluster.deletionTimestamp) ~> ~managedCluster.exists

\* C30 witness: the object is gone although a store call failed on the way
\* and the provider cleanup of a pass returned an error for a missing workload.
C30_Witness ==
  /\ ~managedCluster.exists /\ pass.path = "delete"
  /\ Returned(pass, "Get", "HelmRelease", "NotFound")
  /\ faults = MaxFaults
  /\ aws \in Range(InfraProvidersNames(templateProviders))
  /\ \A k \in ClusterKinds : ~clusters[k].exists

\* ------------------------------------------- two objects on the worker pool

\* Namespace and name of the ManagedCluster objects of the store.
ObjectKeys ==
  { [namespace |-> "ns1", name |-> "x"],
    [namespace |-> "ns1", name |-> "y"],
    [namespace |-> "ns2", name |-> "x"] }

\* The pairs of different objects that have a pass each.
WorkerPairs ==
  { {[namespace |-> "ns1", name |-> "x"], [namespace |-> "ns1", name |-> "y"]},
    {[namespace |-> "ns1", name |-> "x"], [namespace |-> "ns2", name |-> "x"]} }

\* req.NamespacedName: the key of the object a pass is for.
RequestKey(k) == [namespace |-> k.namespace, name |-> k.name]

\* The release of a ManagedCluster looked up by its name alone.
HelmReleaseKey_NameOnly(mc) == [namespace |-> "ns1", name |-> mc.name]

\* The release of a ManagedCluster: its name and its namespace.
HelmReleaseKey(mc) == [namespace |-> mc.namespace, name |-> mc.name]

\* The Profile of a ManagedCluster: its namespace and its name.
ProfileKey(mc) == [namespace |-> mc.namespace, name |-> mc.name]

\* getCluster's list options: the namespace, and the label that carries the
\* name of the release.
ClusterSelector(mc) == [namespace |-> mc.namespace, name |-> mc.name]

\* The store as the passes see it: every kind keyed by namespace and name
\* (the workload objects by namespace and label).
Store ==
  [mc |-> managedCluster, hr |-> helmRelease, profile |-> profile,
   clusters |-> clusters]

\* The object of the store a call of the pass for k reads or writes; <<>> for
\* the calls on the templates, credentials and charts that no pass writes,
\* and on what lies outside the management store.
Target(k, e) ==
  CASE e[2] = "ManagedCluster" -> <<"ManagedCluster", RequestKey(k)>>
    [] e[2] = "HelmRelease" -> <<"HelmRelease", HelmReleaseKey(k)>>
    [] e[2] = "Profile" -> <<"Profile", ProfileKey(k)>>
    [] e[2] \in ClusterKinds -> <<e[2], ClusterSelector(k)>>
    [] OTHER -> <<>>

\* The calls of a pass that reached an object of the store: those that
\* returned the object, its absence, or the write.
StoreCalls(k, calls) ==
  SelectSeq(calls, LAMBDA e : /\ Target(k, e) # <<>>
                               /\ e[3] # "error"
                               /\ ~(e[1] = "List" /\ e[3] = "NotFound"))

\* The object at a target.
At(S, t) ==
  CASE t[1] = "ManagedCluster" -> S.mc[t[2]]
    [] t[1] = "HelmRelease" -> S.hr[t[2]]
    [] t[1] = "Profile" -> S.profile[t[2]]
    [] OTHER -> S.clusters[t[2]][t[1]]

\* The objects of a pass's context, by kind.
Of(v, kind) ==
  CASE kind = "ManagedCluster" -> v.mc
    [] kind = "HelmRelease" -> v.hr
    [] kind = "Profile" -> v.profile
    [] OTHER -> v.clusters[kind]

\* The store after the call e of a pass that ends with the objects final:
\* Update writes the object without its status, Status().Update its status,
\* and the calls on the other kinds write the object they are for.
Written(S, t, e, final) ==
  LET stored == S.mc[t[2]]
      updated == [final.mc EXCEPT !.status = stored.status]
  IN CASE e[1] = "Update" ->
            [S EXCEPT !.mc[t[2]] = IF updated.exists THEN updated ELSE Gone]
       [] e[1] = "StatusUpdate" ->
            [S EXCEPT !.mc[t[2]].status = final.mc.status]
       [] e[1] \in {"Upsert", "Delete"} /\ t[1] = "HelmRelease" ->
            [S EXCEPT !.hr[t[2]] = final.hr]
       [] e[1] \in {"Reconcile", "Delete"} /\ t[1] = "Profile" ->
            [S EXCEPT !.profile[t[2]] = final.profile]
       [] e[1] = "Patch" ->
            [S EXCEPT !.clusters[t[2]][t[1]] = final.clusters[t[1]]]
       [] OTHER -> S

\* The context of a pass for k that starts on the store S.
CtxIn(S, k) ==
  [mc |-> S.mc[RequestKey(k)], stored |-> S.mc[RequestKey(k)],
   hr |-> S.hr[HelmReleaseKey(k)], profile |-> S.profile[ProfileKey(k)],
   clusters |-> S.clusters[ClusterSelector(k)], template |-> "",
   faults |-> 0, path |-> "reconcile", calls |-> <<>>,
   done |-> FALSE, err |-> FALSE, requeueAfter |-> 0]

\* A worker of the pool that has no pass yet.
Idle ==
  [state |-> "idle", script |-> <<>>, pc |-> 1, calls |-> <<>>,
   final |-> <<>>, seen |-> <<>>, diverged |-> FALSE,
   err |-> FALSE, requeueAfter |-> 0]

\* What an object can have come to before the passes start.
Lifecycles ==
  LET mc(del, fin) ==
        [exists |-> TRUE, deletionTimestamp |-> del, finalizer |-> fin,
         generation |-> 1, dryRun |-> FALSE, status |-> NoStatus]
      ready == [exists |-> TRUE, deletionTimestamp |-> FALSE, ready |-> ConditionTrue]
      attached == [exists |-> TRUE, deletionTimestamp |-> FALSE]
      none == [kind \in ClusterKinds |-> NoCluster]
      installed ==
        [kind \in ClusterKinds |->
           [exists |-> TRUE, finalizers |-> {BlockingFinalizer, ProviderFinalizer}]]
  IN { [mc |-> mc(FALSE, FALSE), hr |-> NoRelease, profile |-> NoProfile, clusters |-> none],
       [mc |-> mc(FALSE, TRUE), hr |-> NoRelease, profile |-> NoProfile, clusters |-> none],
       [mc |-> mc(FALSE, TRUE), hr |-> ready, profile |-> NoProfile, clusters |-> installed],
       [mc |-> mc(TRUE, TRUE), hr |-> ready, profile |-> attached, clusters |-> installed],
       [mc |-> mc(TRUE, TRUE), hr |-> NoRelease, profile |-> NoProfile, clusters |-> none] }

\* Two different ManagedClusters, each somewhere in its life, with a pass
\* ahead for each; the third key has no object.
InitTwo ==
  \E pair \in WorkerPairs : \E life \in [pair -> Lifecycles] :
    LET at(k, f, absent) == IF k \in pair THEN life[k][f] ELSE absent IN
    /\ managedCluster = [k \in ObjectKeys |-> at(k, "mc", Gone)]
    /\ helmRelease = [k \in ObjectKeys |-> at(k, "hr", NoRelease)]
    /\ profile = [k \in ObjectKeys |-> at(k, "profile", NoProfile)]
    /\ clusters = [k \in ObjectKeys |-> at(k, "clusters", [kind \in ClusterKinds |-> NoCluster])]
    /\ templateProviders =
         <<<<"bootstrap-", "k0s">>, <<infraPrefix, "aws">>, <<infraPrefix, "azure">>>>
    /\ templateChains = TemplateChains
    /\ poller = NoPoller
    /\ faults = 0
    /\ pass = [start |-> [mc |-> managedCluster, hr |-> helmRelease,
                          profile |-> profile, clusters |-> clusters],
               work |-> [k \in pair |-> Idle]]

\* A worker takes the request for k: the pass it runs is one of Reconcile's,
\* its calls reaching the store one at a time.
StartPass(k) ==
  /\ pass.work[k].state = "idle"
  /\ \E o \in Reconcile(CtxIn(Store, k)) :
       /\ faults + o.faults <= MaxFaults
       /\ LET script == StoreCalls(k, o.calls)
              S == Store
          IN
          pass' = [pass EXCEPT !.work[k] =
                     [state |-> IF script = <<>> THEN "done" ELSE "running",
                      script |-> script, pc |-> 1, calls |-> o.calls,
                      final |-> [mc |-> o.stored, hr |-> o.hr, profile |-> o.profile,
                                 clusters |-> o.clusters],
                      seen |-> [mc |-> S.mc[RequestKey(k)], hr |-> S.hr[HelmReleaseKey(k)],
                                profile |-> S.profile[ProfileKey(k)],
                                clusters |-> S.clusters[ClusterSelector(k)]],
                      diverged |-> FALSE, err |-> o.err,
                      requeueAfter |-> o.requeueAfter]]
       /\ faults' = faults + o.faults
  /\ UNCHANGED <<managedCluster, helmRelease, profile, clusters,
                 templateProviders, templateChains, poller>>

\* The next call of k's pass reaches the store: it finds the object as the
\* pass has seen it last, or the pass has diverged from the one that was
\* started; a write stores what the pass wrote.
StoreOp(k) ==
  LET w == pass.work[k] IN
  /\ w.state = "running"
  /\ LET e == w.script[w.pc]
         t == Target(k, e)
         S1 == Written(Store, t, e, w.final)
         now == At(S1, t)
     IN /\ managedCluster' = S1.mc
        /\ helmRelease' = S1.hr
        /\ profile' = S1.profile
        /\ clusters' = S1.clusters
        /\ pass' = [pass EXCEPT !.work[k] =
                      [w EXCEPT
                         !.pc = @ + 1,
                         !.state = IF w.pc = Len(w.script) THEN "done" ELSE "running",
                         !.diverged = @ \/ At(Store, t) # Of(w.seen, t[1]),
                         !.seen = CASE t[1] = "ManagedCluster" -> [@ EXCEPT !.mc = now]
                                    [] t[1] = "HelmRelease" -> [@ EXCEPT !.hr = now]
                                    [] t[1] = "Profile" -> [@ EXCEPT !.profile = now]
                                    [] OTHER -> [@ EXCEPT !.clusters[t[1]] = now]]]
  /\ UNCHANGED <<templateProviders, templateChains, poller, faults>>

NextTwo ==
  \/ \E k \in DOMAIN pass.work : StartPass(k)
  \/ \E k \in DOMAIN pass.work : StoreOp(k)

SpecTwo == InitTwo /\ [][NextTwo]_vars

RECURSIVE RunScript(_, _, _, _)
\* The store after the calls of k's pass from the i-th on, with no step of
\* another pass in between.
RunScript(S, k, w, i) ==
  IF i > Len(w.script) THEN S
  ELSE RunScript(Written(S, Target(k, w.script[i]), w.script[i], w.final), k, w, i + 1)

\* The pass w is one of the passes Reconcile makes for k on the store S.
Replays(S, k, w) ==
  \E r \in Reconcile(CtxIn(S, k)) :
    /\ r.calls = w.calls
    /\ r.stored = w.final.mc /\ r.hr = w.final.hr
    /\ r.profile = w.final.profile /\ r.clusters = w.final.clusters
    /\ r.err = w.err /\ r.requeueAfter = w.requeueAfter

\* The passes that ran are what running a's pass and then b's pass makes of
\* the store the two started from.
OneAfterTheOther(a, b) ==
  LET wa == pass.work[a]
      wb == pass.work[b]
      S1 == RunScript(pass.start, a, wa, 1)
  IN /\ Replays(pass.start, a, wa)
     /\ Replays(S1, b, wb)
     /\ Store = RunScript(S1, b, wb, 1)

\* No call of a pass found an object other than as the pass left it, a
\* worker with a pass or a request is never kept from its next step, and two
\* finished passes leave what they leave run in either order.
InterleavingIsSerial ==
  /\ \A k \in DOMAIN pass.work :
       /\ ~pass.work[k].diverged
       /\ pass.work[k].state = "running" => ENABLED StoreOp(k)
       /\ pass.work[k].state = "idle" =>
            \E o \in Reconcile(CtxIn(Store, k)) : faults + o.faults <= MaxFaults
  /\ (\A k \in DOMAIN pass.work : pass.work[k].state = "done") =>
       \A a, b \in DOMAIN pass.work : a # b => OneAfterTheOther(a, b)

\* A step of the pass for k leaves every object under another namespace or
\* name as it was.
OnlyOwnObjects ==
  \A k \in DOMAIN pass.work :
    pass'.work[k] # pass.work[k] =>
      \A j \in ObjectKeys \ {k} :
        /\ managedCluster'[j] = managedCluster[j]
        /\ helmRelease'[j] = helmRelease[j]
        /\ profile'[j] = profile[j]
        /\ clusters'[j] = clusters[j]

\* C28: passes for two different ManagedClusters, interleaved call by call,
\* end in the store that running one pass after the other gives; a pass
\* writes only the objects under its own object's namespace and name, and is
\* never kept waiting by the other pass.
C28_InterleavedPassesAreSerial ==
  /\ []InterleavingIsSerial
  /\ [][OnlyOwnObjects]_vars

\* C28 witness: the passes for ns1/x and ns2/x are both under way, each
\* between two of its store calls, and one of them has written its release
\* while the other has its upsert still ahead.
C28_Witness ==
  /\ \A k \in DOMAIN pass.work :
       /\ pass.work[k].state = "running" /\ pass.work[k].pc > 1
       /\ k.name = "x"
       /\ <<"Upsert", "HelmRelease", "ok">> \in Range(pass.work[k].script)
  /\ \E a, b \in DOMAIN pass.work :
       /\ helmRelease[a].exists /\ ~helmRelease[b].exists
       /\ ~pass.start.hr[a].exists

\* C31: in a pass whose listing of the template chains failed, Status().Update
\* is not called, the stored status stays as it was, and the pass returns an
\* error; in a pass whose listing succeeded, Status().Update is called.
C31_FailedListingSkipsStatusWrite ==
  [][ /\ Returned(pass', "List", "ClusterTemplateChain", "error") =>
           /\ ~Called(pass', "StatusUpdate", "ManagedCluster")
           /\ managedCluster'.status = managedCluster.status
           /\ pass'.err
      /\ Returned(pass', "List", "ClusterTemplateChain", "ok") =>
           Called(pass', "StatusUpdate", "ManagedCluster") ]_vars

\* C31 witness: the listing failed in a pass that had set ObservedGeneration
\* and conditions in memory, and the store holds neither.
C31_Witness ==
  /\ Returned(pass, "List", "ClusterTemplateChain", "error")
  /\ pass.err
  /\ pass.status.observedGeneration = managedCluster.generation
  /\ pass.status.conditions # <<>>
  /\ managedCluster.status = NoStatus

\* ------------------------------------------------------ the bootstrap poller

\* pollPeriod and errPollPeriod, in seconds.
pollPeriod == 600
errPollPeriod == 10

\* The steps of a tick, in the order Tick calls them.
TickOrder ==
  <<"reconcileDefaultHelmRepo", "reconcileHMCTemplates", "ensureManagement">>

\* time.NewTimer(d) and timer.Reset(d): the timer runs for d from now.
NewTimer(d) == [armed |-> TRUE, period |-> d, elapsed |-> 0]

\* Start with the timer reset to pollPeriod whatever Tick returned.
NextPeriod_AlwaysPollPeriod(err) == pollPeriod

\* Start's choice after a tick: the period the timer is reset to.
NextPeriod(err) == IF err = "error" THEN errPollPeriod ELSE pollPeriod

\* A poller as the manager constructs it, with no global object in the store.
InitPoller ==
  /\ managedCluster = Gone
  /\ helmRelease = NoRelease
  /\ profile = NoProfile
  /\ clusters = [k \in ClusterKinds |-> NoCluster]
  /\ templateProviders = <<>>
  /\ templateChains = <<>>
  /\ faults = 0
  /\ pass = NoPass
  /\ poller \in {[NoPoller EXCEPT !.CreateManagement = m, !.CreateTemplates = t] :
                   m, t \in BOOLEAN}

\* Every step of the poller and of its surroundings leaves the
\* ManagedCluster controller's objects alone.
PollerFrame ==
  UNCHANGED <<managedCluster, helmRelease, profile, clusters, templateProviders,
              templateChains, faults, pass>>

\* Start, up to the select: timer := time.NewTimer(0).
Start ==
  /\ poller.pc = "constructed"
  /\ poller' = [poller EXCEPT !.pc = "select", !.timer = NewTimer(0)]
  /\ PollerFrame

\* case <-timer.C: the timer has fired; Tick is called.
TimerCase ==
  /\ poller.pc = "select"
  /\ poller.timer.armed /\ poller.timer.elapsed >= poller.timer.period
  /\ poller' = [poller EXCEPT !.pc = TickOrder[1], !.timer.armed = FALSE,
                              !.running = @ + 1, !.steps = <<>>]
  /\ PollerFrame

\* case <-ctx.Done(): return nil.
DoneCase ==
  /\ poller.pc = "select"
  /\ poller.cancelled
  /\ poller' = [poller EXCEPT !.pc = "returned", !.returned = "nil"]
  /\ PollerFrame

\* The poller after the step of Tick it is at returned result: Tick goes on
\* to the next step, or returns the step's error, or nil after the last.
AfterStep(p, result) ==
  LET done == [p EXCEPT !.steps = Append(@, <<p.pc, result>>)]
      i == Len(done.steps)
  IN IF result = "error"
     THEN [done EXCEPT !.pc = "reset", !.lastErr = "error", !.running = @ - 1]
     ELSE IF i = Len(TickOrder)
     THEN [done EXCEPT !.pc = "reset", !.lastErr = "nil", !.running = @ - 1]
     ELSE [done EXCEPT !.pc = TickOrder[i + 1]]

\* reconcileDefaultHelmRepo: CreateOrUpdate of the default HelmRepository.
reconcileDefaultHelmRepo(p) ==
  { AfterStep(p, "error"),
    AfterStep([p EXCEPT !.helmRepository = TRUE], "ok") }

\* reconcileHMCTemplates: nothing without CreateTemplates; else CreateOrUpdate
\* of the HelmChart, the test of its artifact, and the upsert of the release.
reconcileHMCTemplates(p) ==
  IF ~p.CreateTemplates THEN {AfterStep(p, "skipped")}
  ELSE LET charted == [p EXCEPT !.helmChart.exists = TRUE] IN
       { AfterStep(p, "error") }
       \cup IF ~charted.helmChart.ready THEN {AfterStep(charted, "error")}
            ELSE { AfterStep(charted, "error"),
                   AfterStep([charted EXCEPT !.templatesRelease = TRUE], "ok") }

\* ensureManagement: nothing without CreateManagement; else Get the Management
\* object and Create it with the defaults when it is not found.
ensureManagement(p) ==
  IF ~p.CreateManagement THEN {AfterStep(p, "skipped")}
  ELSE { AfterStep(p, "error") }
       \cup IF p.management THEN {AfterStep(p, "ok")}
            ELSE {AfterStep([p EXCEPT !.management = TRUE], "ok")}

\* Tick, one step of it.
TickStep ==
  /\ poller.pc \in Range(TickOrder)
  /\ poller' \in CASE poller.pc = TickOrder[1] -> reconcileDefaultHelmRepo(poller)
                   [] poller.pc = TickOrder[2] -> reconcileHMCTemplates(poller)
                   [] OTHER -> ensureManagement(poller)
  /\ PollerFrame

\* Start, after Tick returned: timer.Reset(errPollPeriod) or timer.Reset(pollPeriod).
ResetTimer ==
  /\ poller.pc = "reset"
  /\ poller' = [poller EXCEPT !.pc = "select",
                              !.timer = NewTimer(NextPeriod(poller.lastErr))]
  /\ PollerFrame

\* Time passes on the running timer: half of what is left, or all of it.
TimePasses ==
  /\ poller.timer.armed /\ poller.timer.elapsed < poller.timer.period
  /\ \E e \in {poller.timer.period \div 2, poller.timer.period} :
       /\ e > poller.timer.elapsed
       /\ poller' = [poller EXCEPT !.timer.elapsed = e]
  /\ PollerFrame

\* The manager cancels the context Start was given.
Cancel ==
  /\ poller.pc # "constructed" /\ ~poller.cancelled
  /\ poller' = [poller EXCEPT !.cancelled = TRUE]
  /\ PollerFrame

\* The source controller makes the artifact of the HelmChart ready.
ArtifactBecomesReady ==
  /\ poller.helmChart.exists /\ ~poller.helmChart.ready
  /\ poller' = [poller EXCEPT !.helmChart.ready = TRUE]
  /\ PollerFrame

\* Someone deletes the Management object.
ManagementDeleted ==
  /\ poller.management
  /\ poller' = [poller EXCEPT !.management = FALSE]
  /\ PollerFrame

NextPoller ==
  \/ Start
  \/ TimerCase
  \/ DoneCase
  \/ TickStep
  \/ ResetTimer
  \/ TimePasses
  \/ Cancel
  \/ ArtifactBecomesReady
  \/ ManagementDeleted

\* Start keeps running: the calls of a tick return, and the select takes a
\* case that is ready, choosing among the ready cases at random, so the
\* cancellation is not passed over for ever.
SpecPoller ==
  /\ InitPoller /\ [][NextPoller]_vars
  /\ WF_vars(Start)
  /\ WF_vars(TickStep)
  /\ WF_vars(ResetTimer)
  /\ SF_vars(DoneCase)

\* What the poller's state says of the ticks: at most one runs; the steps of
\* a tick are a beginning of TickOrder, none but the last having failed; a
\* tick that returned returned the error of its failed step, or nil after
\* all three steps; the timer runs for 0 before the first tick, for
\* errPollPeriod after a tick that returned an error and for pollPeriod after
\* one that returned nil; and Start has returned nil, and only with the
\* context cancelled.
TicksInOrderAndOnTime ==
  LET steps == poller.steps
      n == Len(steps)
  IN /\ poller.running <= 1
     /\ n <= Len(TickOrder)
     /\ \A i \in 1..n : steps[i][1] = TickOrder[i]
     /\ \A i \in 1..(n - 1) : steps[i][2] # "error"
     /\ poller.pc = "reset" =>
          /\ n > 0
          /\ poller.lastErr = "error" <=> steps[n][2] = "error"
          /\ poller.lastErr = "nil" <=> (n = Len(TickOrder) /\ steps[n][2] # "error")
     /\ poller.timer.armed =>
          poller.timer.period =
            CASE poller.lastErr = "none" -> 0
              [] poller.lastErr = "error" -> errPollPeriod
              [] OTHER -> pollPeriod
     /\ poller.pc = "returned" <=> poller.returned = "nil"
     /\ poller.returned # "none" => poller.returned = "nil" /\ poller.cancelled

\* A tick begins only when the running timer has run its period, and with
\* no other tick running.
TickBeginsWhenDue ==
  poller'.running > poller.running =>
    /\ poller.running = 0
    /\ poller.timer.armed /\ poller.timer.elapsed >= poller.timer.period

\* C32: the timer is due at once on Start, no two ticks run at the same
\* time, the next tick is due 10 seconds after a tick that returned an error
\* and 10 minutes after one that returned nil, Start returns nil once the
\* context is cancelled, and a tick runs its steps in the order default
\* HelmRepository, HMC templates, Management, ending with the error of the
\* first step that fails.
C32_PollerTicksInOrderAndOnTime ==
  /\ []TicksInOrderAndOnTime
  /\ [][TickBeginsWhenDue]_vars
  /\ poller.cancelled ~> poller.returned = "nil"

\* C32 witness: Start has returned nil after the context was cancelled, the
\* last tick having failed at its second step with the default
\* HelmRepository stored and the Management object never reached.
C32_Witness ==
  /\ poller.returned = "nil" /\ poller.cancelled
  /\ poller.lastErr = "error"
  /\ poller.steps = <<<<"reconcileDefaultHelmRepo", "ok">>,
                      <<"reconcileHMCTemplates", "error">>>>
  /\ poller.helmRepository /\ poller.CreateManagement /\ ~poller.management

====
